---- MODULE Spec2Model ----
(***************************************************************************)
(* Deep Think pipeline: the orchestrator (orchestrator/pipeline.py), the   *)
(* Think fan-out joined by asyncio.gather, and the retrying Gemini client  *)
(* (clients/gemini.py) every stage agent calls.                            *)
(*                                                                         *)
(* One behaviour of Spec is one call of DeepThinkPipeline.run.  The        *)
(* provider, the search tool and the clock are the environment: every      *)
(* attempt may succeed or fail, and the pipeline-wide deadline may expire  *)
(* whenever the run is suspended.                                          *)
(***************************************************************************)
EXTENDS Naturals, Integers, Sequences, FiniteSets, TLC

Min2(a, b) == IF a < b THEN a ELSE b
Max2(a, b) == IF a > b THEN a ELSE b

\* ------------------------------------------------------------------ bounds
MaxPaths == 3
MaxResearchSteps == 2
MaxTopK == 2

\* ------------------------------------------------------- program constants
\* (variant: stop_after_attempt(4))
MaxAttemptsFour == 4

MaxAttempts == 3

\* stop_after_attempt(3) and retry_if_exception_type(Exception): the errors
\* one attempt of generate_content_async can end with.
AttemptErrors == {"ProviderError", "asyncio.TimeoutError", "ValueError"}

Queries == {"", "q"}

\* final_answer texts the Refine stage can produce, the empty text included
RefineAnswers == {"", "refined"}
\* what the model's Refine output holds under "synthesis_approach"
SynthesisOutputs == {"given", "absent", "null"}

\* meta_refined_answer of the model's output: a text, the key is absent, a
\* JSON null, or a JSON array
MetaOutputs == {"elevated", "absent", "null", "list"}

StageOrder == <<"planning", "research", "thinking", "critique", "refinement", "meta_refinement">>

LlmStages == {"planning", "critique", "refinement", "meta_refinement"}

\* ------------------------------------------------------ the model invoker
\* (base.py _call_llm and gemini.py generate_content_async, with the clock)

\* bounds of the invoker's inputs
MaxTimeout == 3
MaxTextLen == 2

\* base.py 246: max_allowed_tokens = 8192
MaxAllowedTokens == 8192
\* gemini.py 61: wait_exponential(multiplier=1, min=1, max=60)
WaitMultiplier == 1
WaitMin == 1
WaitMax == 60

\* max_tokens values an agent may ask for (the stages ask for 4096 and 6144)
RequestedTokens == {1024, 4096, 6144, 8192, 8193, 16384}

\* characters of a provider text: whitespace and anything else
Chars == {" ", "x"}

RECURSIVE TextsOfLen(_)
TextsOfLen(n) ==
    IF n = 0 THEN {<<>>}
    ELSE {Append(t, c) : t \in TextsOfLen(n - 1), c \in Chars}

ProviderTexts == UNION {TextsOfLen(n) : n \in 0 .. MaxTextLen}

\* what generate_content_async of the SDK can hand back: a response whose
\* .text is a str, or one whose .text accessor raises ValueError (no part)
ProviderResponses ==
    {[kind |-> "text", text |-> t] : t \in ProviderTexts}
        \cup {[kind |-> "no_part", text |-> <<>>]}

NoInvoke ==
    [st |-> "idle", requested |-> 0, timeout |-> 0, attempt |-> 0, elapsed |-> 0,
     wait |-> 0, sent |-> <<>>, waits |-> <<>>, outcomes |-> <<>>,
     value |-> <<>>, exc |-> "none"]

\* --------------------------------------------------- the response normalizer
\* (base.py _parse_json_with_recovery and _attempt_json_recovery)

\* bound: a response text is a concatenation of at most MaxChunks chunks
MaxChunks == 4

Quote == "\""
Newline == "\n"

\* pieces of a model response: the JSON punctuation, a letter, a line break,
\* one complete "a":"a" member and one complete {"a":"a"} object
Chunks ==
    { <<"{">>, <<"}">>, <<Quote>>, <<":">>, <<"a">>, <<Newline>>,
      <<Quote, "a", Quote, ":", Quote, "a", Quote>>,
      <<"{", Quote, "a", Quote, ":", Quote, "a", Quote, "}">> }

RECURSIVE TextsOfChunks(_)
TextsOfChunks(n) ==
    IF n = 0 THEN {<<>>}
    ELSE {t \o c : t \in TextsOfChunks(n - 1), c \in Chunks}

ResponseTexts == UNION {TextsOfChunks(n) : n \in 0 .. MaxChunks}

\* JSON values: a string (s its characters) or an object (kv its members,
\* each <<key, value>>); "true" stands for the literal
StrValue(chars) == [t |-> "str", s |-> chars, kv |-> <<>>]
ObjValue(members) == [t |-> "obj", s |-> <<>>, kv |-> members]
TrueValue == [t |-> "true", s |-> <<>>, kv |-> <<>>]

\* the role-specific fallback records the agents pass (always non-empty)
FallbackRecords ==
    { ObjValue(<< <<(<<"approach">>), StrValue(<<"fallback plan">>)>> >>),
      ObjValue(<< <<(<<"evaluations">>), StrValue(<<"defaults">>)>>,
                  <<(<<"ranking">>), StrValue(<<"defaults">>)>> >>) }

\* fallback_result: None (left out) or a record
Fallbacks == {<<>>} \cup {<<f>> : f \in FallbackRecords}

NoNormalize ==
    [pc |-> "idle", text |-> <<>>, fallback |-> <<>>, consulted |-> <<>>,
     recovered |-> <<>>, out |-> <<>>, via |-> "none"]

\* ------------------------------------------------------ the critic's validation
\* (critic.py execute 66-72 and _validate_and_enhance_critique)

\* bound: evaluations in one model output
MaxEvals == 2

Rubrics == {"clarity_coherence", "logical_soundness", "completeness_depth",
            "originality_insight", "evidence_support"}

\* critic.py 205-211, in tenths
RubricWeight ==
    [r \in Rubrics |->
        CASE r = "clarity_coherence" -> 2
          [] r = "logical_soundness" -> 4
          [] r = "completeness_depth" -> 3
          [] r = "originality_insight" -> 1
          [] r = "evidence_support" -> 2]

\* agent_id values of a model evaluation: a thinker seed, an id no candidate
\* has, or none at all (e.get("agent_id") is None)
ForeignId == 99
AbsentId == -1
EvalIds == (0 .. (MaxPaths - 1)) \cup {ForeignId, AbsentId}

\* scores the model gives (the same on every rubric of one evaluation)
RawScores == {2, 8}

ModelEvaluations ==
    {[agent_id |-> a, rubric_scores |-> [r \in Rubrics |-> <<sc>>],
      weighted_total_score |-> <<>>] :
        a \in EvalIds, sc \in RawScores}

\* critic.py 215: rubric_data.get("score", 5)
DefaultScore == 5

\* one evaluation of the only candidate, each "score" absent (<<>>) or a
\* number below, inside or above the range, with or without a total of the
\* model's own
ScoreInputs == {<<>>, <<-3>>, <<0>>, <<7>>, <<10>>, <<14>>}
SuppliedTotals == {<<>>, <<999>>}
ScoredEvaluations ==
    {[agent_id |-> 0, rubric_scores |-> f, weighted_total_score |-> t] :
        f \in [Rubrics -> ScoreInputs], t \in SuppliedTotals}

RECURSIVE EvaluationLists(_)
EvaluationLists(n) ==
    IF n = 0 THEN {<<>>}
    ELSE {Append(l, e) : l \in EvaluationLists(n - 1), e \in ModelEvaluations}

\* what _parse_json_with_recovery hands to the validation: the model's
\* record with its "evaluations" list, a record without that key, a record
\* whose "evaluations" is not a list of objects, or (for an unparseable
\* text) the fallback critique
CriticOutputs ==
    {[kind |-> "evaluations", evaluations |-> l] :
        l \in UNION {EvaluationLists(n) : n \in 0 .. MaxEvals}}
      \cup {[kind |-> k, evaluations |-> <<>>] :
              k \in {"no_key", "malformed", "unparseable"}}

\* the candidates handed to the critic: any non-empty list of thinker
\* results with distinct agent_ids
CandidateLists ==
    {l \in UNION {[1 .. n -> 0 .. (MaxPaths - 1)] : n \in 1 .. MaxPaths} :
        \A i, j \in DOMAIN l : i # j => l[i] # l[j]}

NoCritique ==
    [pc |-> "idle", candidates |-> <<>>,
     output |-> [kind |-> "no_key", evaluations |-> <<>>],
     critique |-> [kind |-> "no_key", evaluations |-> <<>>],
     evaluations |-> <<>>, ranking |-> <<>>, exc |-> "none",
     top_k |-> 0, top_candidates |-> <<>>]

\* ------------------------------------------------- request model inputs
\* request.py 14-40: the Field constraints and defaults of DeepThinkRequest
QueryMinLength == 1
NPathsDefault == 8
NPathsGe == 1
NPathsLe == 32
TopKDefault == 3
TopKGe == 1
TopKLe == 10

\* a field of the request is absent (<<>>) or given (<<value>>)
RequestQueries == {<<>>} \cup {<<t>> : t \in ProviderTexts}
RequestNPaths == {<<>>} \cup {<<n>> : n \in (NPathsGe - 1) .. (NPathsLe + 1)}
RequestTopK == {<<>>} \cup {<<k>> : k \in (TopKGe - 1) .. (TopKLe + 1)}

NoData == [query |-> <<>>, n_paths |-> <<>>, top_k |-> <<>>]

NoRequest ==
    [pc |-> "idle", query |-> <<>>, n_paths |-> <<>>, top_k |-> <<>>,
     data |-> NoData, errors |-> {}, outcome |-> "none"]

\* a Python value the model's JSON can hold: its type and its text
PyNone == [type |-> "NoneType", v |-> "None"]

\* the refiner unit before any result is validated
NoRefine ==
    [pc |-> "idle", parsed |-> FALSE, raw |-> <<>>, top_candidates |-> <<>>,
     result |-> [final_answer |-> <<>>], final_answer |-> PyNone,
     exc |-> "none"]

\* the planner unit before any plan is validated
NoBudget == [pc |-> "idle", budget |-> <<>>, thinking_budget |-> <<>>]

\* the tool unit before execute is called
NoTool ==
    [pc |-> "idle", tavily_api_key |-> FALSE, research_steps |-> <<>>,
     i |-> 0, in_flight |-> 0, step_results |-> <<>>]

VARIABLES
    query,                  \* run(query, ...)
    n_paths,                \* run(..., n_paths, ...)
    top_k,                  \* run(..., top_k, ...)
    pc,                     \* stage _execute_pipeline is at, or "done"
    call,                   \* the Gemini call of the current sequential stage
    plan_result,            \* <<>> or <<plan record>>
    research_step,          \* index of the research step being searched
    research_results,       \* <<>> (None) or <<record>>
    think,                  \* per seed: state of thinker_i.execute
    arrival,                \* seeds in the order their Think task finished
    valid_candidates,       \* sequence of candidates after the join
    failed_count,           \* number of failed thinkers counted by the join
    critic_input,           \* the candidates handed to critic.execute
    refiner_input,          \* the candidates handed to refiner.execute
    critique_result,        \* <<>> or <<record>>
    refinement_result,      \* <<>> or <<record>>
    meta_refinement_result, \* <<>> (None) or <<record>>
    result,                 \* <<>> or <<the dict run returns>>
    failure,                \* the exception run raised, or NoFailure
    started,                \* stages in the order their execute was called
    finished,               \* stages whose execute has returned or raised
    raised,                 \* stages whose execute raised an exception
    called,                 \* stages that made a provider / search call
    inv,                    \* one BaseAgent._call_llm call, exercised on its own
    norm,                   \* one _parse_json_with_recovery call, on its own
    crit,                   \* one critic validation, exercised on its own
    req,                    \* one DeepThinkRequest construction, on its own
    ref,                    \* one RefinerAgent result validation, on its own
    bud,                    \* one planner thinking_budget normalisation, on its own
    tool                    \* one ToolAgent.execute, on its own

vars == <<query, n_paths, top_k, pc, call, plan_result, research_step, research_results,
          think, arrival, valid_candidates, failed_count, critic_input,
          refiner_input, critique_result, refinement_result,
          meta_refinement_result, result, failure, started, finished, raised,
          called, inv, norm, crit, req, ref, bud, tool>>

Seeds == 0 .. (MaxPaths - 1)

IdleCall == [st |-> "idle", attempt |-> 0]

NoFailure == [type |-> "none", stage |-> "none", cause |-> "none"]

UnusedThinker == [st |-> "unused", attempt |-> 0, exc |-> "none"]

StageNames == {StageOrder[k] : k \in 1 .. Len(StageOrder)}

\* ------------------------------------------------------------ pure helpers

\* raise TimeoutError(f"Pipeline execution exceeded {timeout} seconds")
PipelineTimeout == "TimeoutError"

\* raise RuntimeError("All thinking paths failed")
AllPathsFailed == "RuntimeError"

\* (variant: the retry policy re-raises the last attempt's own exception)
InvokerFailureReraised(err) == err

\* tenacity without reraise=True: once the attempts are used up the caller
\* sees RetryError wrapping the last attempt's exception.
InvokerFailure(err) == "RetryError"

\* run(): `except asyncio.TimeoutError` turns the timeout of wait_for into
\* TimeoutError("Pipeline execution exceeded ..."); `except Exception`
\* re-raises anything else unchanged.
RunExcept(exc) == IF exc = "asyncio.TimeoutError" THEN PipelineTimeout ELSE exc

\* (variant: the Critique call is wrapped in a handler as well)
CaughtAlsoCritique(stage) == stage \in {"research", "critique", "meta_refinement"}

\* (variant: only the Meta-Refine call is wrapped)
CaughtOnlyMeta(stage) == stage \in {"meta_refinement"}

\* The stages whose execute is wrapped in try/except Exception by
\* _execute_pipeline.
CaughtByOrchestrator(stage) == stage \in {"research", "meta_refinement"}

\* (variant: gather without return_exceptions)
ReturnExceptionsOff == FALSE

\* asyncio.gather(*thinker_tasks, return_exceptions=True)
ReturnExceptions == TRUE

\* (variant: the thinker tasks are shielded from the cancellation)
CancelThinkerShielded(t) == t

\* Cancelling _execute_pipeline cancels the gather it awaits, which cancels
\* every child that is not done: CancelledError is not an Exception, so
\* neither tenacity nor any `except Exception` handler retries or keeps it.
CancelThinker(t) ==
    IF t.st \in {"inflight", "backoff"} THEN [t EXCEPT !.st = "cancelled"] ELSE t

\* (variant: the awaiter resumes on the first success)
GatherFirstSuccess(th, n) == \E i \in 0 .. (n - 1) : th[i].st = "ok"

\* gather resumes its awaiter when every child is done.
GatherDone(th, n) == \A i \in 0 .. (n - 1) : th[i].st \in {"ok", "failed"}

\* (variant: results are listed in completion order, as as_completed would)
GatherResultsByArrival(th, n, order) ==
    [k \in 1 .. n |-> [seed |-> order[k], st |-> th[order[k]].st,
                       exc |-> th[order[k]].exc]]

\* gather returns one entry per awaitable in the order they were passed,
\* whatever the order in which they finished.
GatherResults(th, n, order) ==
    [k \in 1 .. n |-> [seed |-> k - 1, st |-> th[k - 1].st, exc |-> th[k - 1].exc]]

\* what thinker.execute returns for seed i
\* (annotated: the record carries the refiner's critique, rank and
\* total_score keys)
Candidate(i) == [agent_id |-> i, thinker_agent_id |-> i, annotated |-> FALSE]

\* (variant: the isinstance(candidate, Exception) test is missing)
RECURSIVE FilterKeepsAll(_, _)
FilterKeepsAll(results, k) ==
    IF k > Len(results) THEN <<>>
    ELSE <<Candidate(results[k].seed)>> \o FilterKeepsAll(results, k + 1)

\* pipeline.py 221-233: candidates that are not exceptions, in list order
RECURSIVE FilterValid(_, _)
FilterValid(results, k) ==
    IF k > Len(results) THEN <<>>
    ELSE IF results[k].st = "failed"
         THEN FilterValid(results, k + 1)
         ELSE <<Candidate(results[k].seed)>> \o FilterValid(results, k + 1)

\* (variant: abort as soon as one path failed)
AnyPathFailed(cands, nfailed) == nfailed > 0

\* pipeline.py 235: `if not valid_candidates`
NoValidCandidates(cands, nfailed) == cands = <<>>

\* (variant: every path is counted as failed)
CountFailedEveryPath(results, k) == Len(results) - k + 1

\* pipeline.py 224-231: failed_count += 1 for each exception in the list
RECURSIVE CountFailed(_, _)
CountFailed(results, k) ==
    IF k > Len(results) THEN 0
    ELSE (IF results[k].st = "failed" THEN 1 ELSE 0) + CountFailed(results, k + 1)

\* plan.get("research_needed", False) and plan.get("research_steps")
WantsResearch(planres) ==
    /\ planres # <<>>
    /\ planres[1].research_needed
    /\ planres[1].research_steps > 0

\* (variant: Refine is called before Critique)
NextStageSwapped(stage, planres) ==
    CASE stage = "planning" -> IF WantsResearch(planres) THEN "research" ELSE "thinking"
      [] stage = "research" -> "thinking"
      [] stage = "thinking" -> "refinement"
      [] stage = "refinement" -> "critique"
      [] stage = "critique" -> "meta_refinement"
      [] OTHER -> "done"

\* the straight-line order of _execute_pipeline
NextStage(stage, planres) ==
    CASE stage = "planning" -> IF WantsResearch(planres) THEN "research" ELSE "thinking"
      [] stage = "research" -> "thinking"
      [] stage = "thinking" -> "critique"
      [] stage = "critique" -> "refinement"
      [] stage = "refinement" -> "meta_refinement"
      [] OTHER -> "done"

\* (variant: the handler falls back to the placeholder text)
MetaFallbackPlaceholder(refres) == "Unable to generate answer"

\* pipeline.py 289: the answer used when meta_refiner.execute raised
MetaFallbackAnswer(refres) ==
    IF refres = <<>> THEN "Unable to generate answer" ELSE refres[1].final_answer

\* pipeline.py 272: the answer used when meta_refiner.execute returned
MetaAnswer(metares, refres) == metares[1].meta_refined_answer

\* pipeline.py 292-294
PipelineStages(resres) ==
    IF resres # <<>>
    THEN <<"planning", "research", "thinking", "critique", "refinement", "meta_refinement">>
    ELSE <<"planning", "thinking", "critique", "refinement", "meta_refinement">>

\* pipeline.py 291-320
CompileResult(metares, refres, resres, cands, nfailed, planres, critres) ==
    [ answer |-> IF metares # <<>> THEN MetaAnswer(metares, refres)
                 ELSE MetaFallbackAnswer(refres),
      metadata |->
        [ n_paths |-> n_paths,
          candidates_generated |-> Len(cands),
          candidates_failed |-> nfailed,
          top_k_used |-> top_k,
          synthesis_approach |->
              IF refres = <<>> THEN <<>> ELSE refres[1].synthesis_approach,
          confidence_level |->
              IF refres = <<>> THEN <<>> ELSE <<refres[1].confidence_level>>,
          execution_time_seconds |-> <<"elapsed">>,
          research_conducted |-> (resres # <<>>),
          meta_refinement_applied |-> (metares # <<>>),
          pipeline_stages |-> PipelineStages(resres) ],
      plan |-> planres,
      candidates |-> cands,
      critique |-> critres ]

\* refiner.py 264-267: result.get("synthesis_approach", <default text>).  The
\* default stands in for an absent key only; a null value is kept as None.
ValidatedSynthesisApproach(out) ==
    CASE out = "absent" -> <<"Combined insights from top-rated candidates">>
      [] out = "null" -> <<>>
      [] OTHER -> <<out>>

\* refiner.py 342-352: always one of "high", "medium", "low"
NormalizeConfidence(out) == IF out \in {"high", "low"} THEN out ELSE "medium"

\* refiner.py 54, 84: len(top_candidates), where top_candidates has one
\* entry for each of the first top_k entries of the ranking, and the ranking
\* has one entry per candidate
CandidatesSynthesized(cands, k) == Min2(k, Len(cands))

Bump(stage) == called \cup {stage}


\* pipeline.py 268: refinement_result.get("final_answer", "")
RefinedSolution(refres) == IF refres = <<>> THEN "" ELSE refres[1].final_answer

\* (variant: the planner has no guard on the query)
InputInvalidPlannerUnguarded(stage) ==
    CASE stage = "critique" -> valid_candidates = <<>>
      [] stage = "refinement" -> critique_result = <<>>
      [] stage = "meta_refinement" -> query = "" \/ RefinedSolution(refinement_result) = ""
      [] OTHER -> FALSE

\* the `if not ...: raise ValueError(...)` guard at the top of each execute
InputInvalid(stage) ==
    CASE stage = "planning" -> query = ""
      [] stage = "critique" -> valid_candidates = <<>>
      [] stage = "refinement" -> critique_result = <<>>
      [] stage = "meta_refinement" -> query = "" \/ RefinedSolution(refinement_result) = ""
      [] OTHER -> FALSE

\* -------------------------------------------------------------------- Init
PipelineInit ==
    /\ query \in Queries
    /\ n_paths \in 1 .. MaxPaths
    /\ top_k \in 1 .. MaxTopK
    /\ pc = "planning"
    /\ call = IdleCall
    /\ plan_result = <<>>
    /\ research_step = 0
    /\ research_results = <<>>
    /\ think = [i \in Seeds |-> UnusedThinker]
    /\ arrival = <<>>
    /\ valid_candidates = <<>>
    /\ failed_count = 0
    /\ critic_input = <<>>
    /\ refiner_input = <<>>
    /\ critique_result = <<>>
    /\ refinement_result = <<>>
    /\ meta_refinement_result = <<>>
    /\ result = <<>>
    /\ failure = NoFailure
    /\ started = <<>>
    /\ finished = {}
    /\ raised = {}
    /\ called = {}

Init ==
    /\ PipelineInit
    /\ inv = NoInvoke
    /\ norm = NoNormalize
    /\ crit = NoCritique
    /\ req = NoRequest
    /\ ref = NoRefine
    /\ bud = NoBudget
    /\ tool = NoTool

\* ------------------------------------------- how a stage hands control back

\* The exception leaves _execute_pipeline and run re-raises it.
Abort(stage, exc, cause) ==
    /\ pc' = "done"
    /\ failure' = [type |-> RunExcept(exc), stage |-> stage, cause |-> cause]
    /\ finished' = finished \cup {stage}
    /\ UNCHANGED <<plan_result, research_results, critique_result,
                   refinement_result, meta_refinement_result, result>>

\* The stage's await completes with `value` (<<>> is None) and
\* _execute_pipeline runs on to the next stage, or to its return statement.
Proceed(stage, value) ==
    /\ plan_result' = IF stage = "planning" THEN value ELSE plan_result
    /\ research_results' = IF stage = "research" THEN value ELSE research_results
    /\ critique_result' = IF stage = "critique" THEN value ELSE critique_result
    /\ refinement_result' = IF stage = "refinement" THEN value ELSE refinement_result
    /\ meta_refinement_result' =
           IF stage = "meta_refinement" THEN value ELSE meta_refinement_result
    /\ pc' = NextStage(stage, plan_result')
    /\ result' = IF pc' = "done"
                 THEN <<CompileResult(meta_refinement_result', refinement_result',
                                      research_results', valid_candidates,
                                      failed_count, plan_result',
                                      critique_result')>>
                 ELSE result
    /\ finished' = finished \cup {stage}
    /\ failure' = failure

\* execute raised `exc`: swallowed where the orchestrator has a handler,
\* fatal everywhere else.
StageFails(stage, exc, cause) ==
    /\ raised' = raised \cup {stage}
    /\ IF CaughtByOrchestrator(stage)
       THEN Proceed(stage, <<>>)
       ELSE Abort(stage, exc, cause)

ThinkVars == <<think, arrival, valid_candidates, failed_count>>
InputVars == <<query, n_paths, top_k>>
\* what no step of a pipeline run changes: the arguments of run, and the
\* state of the separately exercised invoker
UnitVars == <<inv, norm, crit, req, ref, bud, tool>>
FixedVars == <<InputVars, UnitVars>>

\* ------------------------------------------------------- sequential stages

\* (variant: the selected candidates are annotated in place)
CallerCandidatesAnnotated(cands, k) ==
    [j \in 1 .. Len(cands) |->
        IF j <= k THEN [cands[j] EXCEPT !.annotated = TRUE] ELSE cands[j]]

\* refiner.py 133-139: critique, rank and total_score are written to a
\* copy of each selected candidate, so the caller's records are as they
\* were when _get_top_candidates returns
CallerCandidates(cands, k) == cands

\* planner / critic / refiner / meta_refiner .execute is called: the input
\* guard, then the first attempt of generate_content_async goes out.
StageStart ==
    /\ pc \in LlmStages
    /\ call.st = "idle"
    /\ started' = Append(started, pc)
    /\ critic_input' = IF pc = "critique" THEN valid_candidates ELSE critic_input
    /\ refiner_input' = IF pc = "refinement" THEN valid_candidates ELSE refiner_input
    /\ valid_candidates' =
           IF pc = "refinement" /\ ~InputInvalid(pc)
           THEN CallerCandidates(valid_candidates, top_k)
           ELSE valid_candidates
    /\ IF InputInvalid(pc)
       THEN /\ StageFails(pc, "ValueError", "validation")
            /\ UNCHANGED <<call, called>>
       ELSE /\ call' = [st |-> "inflight", attempt |-> 1]
            /\ called' = Bump(pc)
            /\ UNCHANGED <<pc, plan_result, research_results, critique_result,
                           refinement_result, meta_refinement_result, result,
                           failure, finished, raised>>
    /\ UNCHANGED <<FixedVars, think, arrival, failed_count, research_step>>

\* One attempt ends with an exception: tenacity sleeps and retries while
\* fewer than MaxAttempts were made, then gives up.
AttemptFails ==
    /\ pc \in LlmStages
    /\ call.st = "inflight"
    /\ \E err \in AttemptErrors :
         IF call.attempt < MaxAttempts
         THEN /\ call' = [call EXCEPT !.st = "backoff"]
              /\ UNCHANGED <<pc, plan_result, research_results, critique_result,
                             refinement_result, meta_refinement_result, result,
                             failure, finished, raised>>
         ELSE /\ call' = IdleCall
              /\ StageFails(pc, InvokerFailure(err), err)
    /\ UNCHANGED <<FixedVars, ThinkVars, research_step, critic_input,
                   refiner_input, started, called>>

\* The backoff sleep is over: the next attempt goes out.
BackoffElapses ==
    /\ pc \in LlmStages
    /\ call.st = "backoff"
    /\ call' = [st |-> "inflight", attempt |-> call.attempt + 1]
    /\ called' = Bump(pc)
    /\ UNCHANGED <<FixedVars, ThinkVars, pc, plan_result, research_step,
                   research_results, critic_input, refiner_input, critique_result,
                   refinement_result, meta_refinement_result, result, failure,
                   started, finished, raised>>

SeqFrame == <<FixedVars, ThinkVars, research_step, critic_input, refiner_input,
              started, called>>

\* planner.execute returns: _validate_research_steps sets research_needed
\* whenever a step survives.
PlanReturns ==
    /\ pc = "planning"
    /\ call.st = "inflight"
    /\ \E needed \in BOOLEAN, steps \in 0 .. MaxResearchSteps :
         /\ steps > 0 => needed
         /\ Proceed("planning", <<[research_needed |-> needed, research_steps |-> steps]>>)
    /\ UNCHANGED raised
    /\ call' = IdleCall
    /\ UNCHANGED SeqFrame

CritiqueReturns ==
    /\ pc = "critique"
    /\ call.st = "inflight"
    /\ Proceed("critique", <<[candidates_evaluated |-> Len(critic_input)]>>)
    /\ UNCHANGED raised
    /\ call' = IdleCall
    /\ UNCHANGED SeqFrame

RefineReturns ==
    /\ pc = "refinement"
    /\ call.st = "inflight"
    /\ \E ans \in RefineAnswers, sa \in SynthesisOutputs :
         Proceed("refinement",
                 <<[final_answer |-> ans,
                    synthesis_approach |-> ValidatedSynthesisApproach(sa),
                    confidence_level |-> NormalizeConfidence("null"),
                    candidates_synthesized |->
                        CandidatesSynthesized(refiner_input, top_k),
                    top_k_used |-> top_k]>>)
    /\ UNCHANGED raised
    /\ call' = IdleCall
    /\ UNCHANGED SeqFrame

\* The provider answered meta_refiner's call.  An absent
\* meta_refined_answer defaults to the refined solution; a null one makes
\* len(meta_result.get("meta_refined_answer", "")) raise TypeError inside
\* execute; any other value is returned as it is.
MetaReturns ==
    /\ pc = "meta_refinement"
    /\ call.st = "inflight"
    /\ \E out \in MetaOutputs :
         IF out = "null"
         THEN StageFails("meta_refinement", "TypeError", "shape")
         ELSE /\ Proceed("meta_refinement",
                         <<[meta_refined_answer |->
                               IF out = "absent"
                               THEN RefinedSolution(refinement_result)
                               ELSE out]>>)
              /\ UNCHANGED raised
    /\ call' = IdleCall
    /\ UNCHANGED SeqFrame

\* ---------------------------------------------------------------- research

ResFrame == <<FixedVars, ThinkVars, call, critic_input, refiner_input>>

\* tool_agent.execute is called; the search of the first step goes out.
ResearchStart ==
    /\ pc = "research"
    /\ research_step = 0
    /\ research_step' = 1
    /\ started' = Append(started, "research")
    /\ called' = Bump("research")
    /\ UNCHANGED <<pc, plan_result, research_results, critique_result,
                   refinement_result, meta_refinement_result, result, failure,
                   finished, raised>>
    /\ UNCHANGED ResFrame

\* search() returns (Tavily or the simulated fallback); the next step's
\* search goes out, or execute returns after the last step.
SearchReturns ==
    /\ pc = "research"
    /\ research_step >= 1
    /\ IF research_step < plan_result[1].research_steps
       THEN /\ research_step' = research_step + 1
            /\ called' = Bump("research")
            /\ UNCHANGED <<pc, plan_result, research_results, critique_result,
                           refinement_result, meta_refinement_result, result,
                           failure, finished, raised>>
       ELSE /\ Proceed("research", <<[steps_done |-> research_step]>>)
            /\ UNCHANGED <<research_step, called, raised>>
    /\ UNCHANGED started
    /\ UNCHANGED ResFrame

\* tool_agent.execute raises (tools.py `except Exception: ... raise`).
ResearchRaises ==
    /\ pc = "research"
    /\ research_step >= 1
    /\ StageFails("research", "Exception", "tool")
    /\ UNCHANGED <<research_step, called, started>>
    /\ UNCHANGED ResFrame

\* ------------------------------------------------------------ Think fan-out

ThinkFrame == <<FixedVars, call, plan_result, research_step, research_results,
                critic_input, refiner_input, critique_result, refinement_result,
                meta_refinement_result, result, raised>>

\* (variant: the thinkers are awaited one by one, the first alone is
\* started)
FanOutFirstOnly ==
    /\ pc = "thinking"
    /\ "thinking" \notin {started[k] : k \in 1 .. Len(started)}
    /\ think' = [i \in Seeds |->
                    IF i = 0
                    THEN [st |-> "inflight", attempt |-> 1, exc |-> "none"]
                    ELSE UnusedThinker]
    /\ started' = Append(started, "thinking")
    /\ called' = Bump("thinking")
    /\ UNCHANGED <<pc, failure, finished, arrival, valid_candidates, failed_count>>
    /\ UNCHANGED ThinkFrame

\* n_paths ThinkerAgent.execute coroutines are handed to gather: each runs
\* up to its first provider call.
FanOut ==
    /\ pc = "thinking"
    /\ "thinking" \notin {started[k] : k \in 1 .. Len(started)}
    /\ think' = [i \in Seeds |->
                    IF i < n_paths
                    THEN [st |-> "inflight", attempt |-> 1, exc |-> "none"]
                    ELSE UnusedThinker]
    /\ started' = Append(started, "thinking")
    /\ called' = Bump("thinking")
    /\ UNCHANGED <<pc, failure, finished, arrival, valid_candidates, failed_count>>
    /\ UNCHANGED ThinkFrame

\* (variant: one attempt counter kept on the shared client, showing the
\* highest attempt any call in progress has reached)
AttemptNumberShared(th, i) ==
    CHOOSE n \in 0 .. MaxAttempts :
        /\ \E j \in Seeds : th[j].attempt = n
        /\ \A j \in Seeds : th[j].attempt <= n

\* gemini.py 59-66: tenacity counts the attempts in the RetryCallState it
\* creates for each call of generate_content_async
AttemptNumber(th, i) == th[i].attempt

\* One attempt of thinker i fails; after the last attempt the task ends with
\* the exception, which gather records as that task's result.
ThinkAttemptFails(i) ==
    /\ think[i].st = "inflight"
    /\ \E err \in AttemptErrors :
         IF AttemptNumber(think, i) < MaxAttempts
         THEN /\ think' = [think EXCEPT ![i].st = "backoff"]
              /\ UNCHANGED <<arrival, pc, failure, finished>>
         ELSE /\ think' = [think EXCEPT ![i] = [st |-> "failed", attempt |-> 0,
                                                 exc |-> InvokerFailure(err)]]
              /\ arrival' = Append(arrival, i)
              /\ IF ReturnExceptions
                 THEN UNCHANGED <<pc, failure, finished>>
                 ELSE /\ pc' = "done"
                      /\ failure' = [type |-> RunExcept(InvokerFailure(err)),
                                     stage |-> "thinking", cause |-> err]
                      /\ finished' = finished \cup {"thinking"}
    /\ UNCHANGED <<started, called, valid_candidates, failed_count>>
    /\ UNCHANGED ThinkFrame

ThinkBackoffElapses(i) ==
    /\ think[i].st = "backoff"
    /\ think' = [think EXCEPT ![i].st = "inflight", ![i].attempt = @ + 1]
    /\ called' = Bump("thinking")
    /\ UNCHANGED <<pc, failure, finished, started, arrival, valid_candidates,
                   failed_count>>
    /\ UNCHANGED ThinkFrame

\* thinker i's provider call returned text; execute returns its candidate.
ThinkReturns(i) ==
    /\ think[i].st = "inflight"
    /\ think' = [think EXCEPT ![i] = [st |-> "ok", attempt |-> 0, exc |-> "none"]]
    /\ arrival' = Append(arrival, i)
    /\ UNCHANGED <<pc, failure, finished, started, called, valid_candidates,
                   failed_count>>
    /\ UNCHANGED ThinkFrame

\* gather resumes _execute_pipeline: it filters the exceptions out, raises
\* RuntimeError("All thinking paths failed") when nothing is left, and goes
\* on to Critique otherwise.
Join ==
    /\ pc = "thinking"
    /\ "thinking" \in {started[k] : k \in 1 .. Len(started)}
    /\ GatherDone(think, n_paths)
    /\ LET results == GatherResults(think, n_paths, arrival)
       IN  /\ valid_candidates' = FilterValid(results, 1)
           /\ failed_count' = CountFailed(results, 1)
    /\ IF NoValidCandidates(valid_candidates', failed_count')
       THEN /\ Abort("thinking", AllPathsFailed, "all_paths_failed")
            /\ raised' = raised \cup {"thinking"}
       ELSE /\ Proceed("thinking", <<>>)
            /\ UNCHANGED raised
    /\ UNCHANGED <<FixedVars, think, arrival, call, research_step, critic_input,
                   refiner_input, started, called>>

\* ------------------------------------------------------ pipeline deadline

\* (variant: run awaits _execute_pipeline without a deadline)
DeadlineNever ==
    /\ FALSE
    /\ UNCHANGED vars

\* wait_for(..., timeout) expires while _execute_pipeline is suspended: the
\* task is cancelled, gather cancels every thinker still running, and run
\* raises TimeoutError.
Deadline ==
    /\ pc # "done"
    /\ pc' = "done"
    /\ failure' = [type |-> RunExcept("asyncio.TimeoutError"), stage |-> "pipeline",
                   cause |-> "deadline"]
    /\ think' = [i \in Seeds |-> CancelThinker(think[i])]
    /\ call' = IF call.st = "idle" THEN call ELSE [call EXCEPT !.st = "cancelled"]
    /\ UNCHANGED <<FixedVars, plan_result, research_step, research_results, arrival,
                   valid_candidates, failed_count, critic_input, refiner_input,
                   critique_result, refinement_result, meta_refinement_result,
                   result, started, finished, raised, called>>

Next ==
    \/ StageStart
    \/ AttemptFails
    \/ BackoffElapses
    \/ PlanReturns
    \/ CritiqueReturns
    \/ RefineReturns
    \/ MetaReturns
    \/ ResearchStart
    \/ SearchReturns
    \/ ResearchRaises
    \/ FanOut
    \/ \E i \in Seeds : ThinkAttemptFails(i)
    \/ \E i \in Seeds : ThinkBackoffElapses(i)
    \/ \E i \in Seeds : ThinkReturns(i)
    \/ Join
    \/ Deadline

Spec == Init /\ [][Next]_vars

\* The event loop runs the timer wait_for has set: the deadline expires
\* unless the run ends first.  Nothing is assumed of the provider or of the
\* search tool, which may leave any call unanswered for ever.
LiveSpec == Init /\ [][Next]_vars /\ WF_vars(Deadline)

TypeOK ==
    /\ pc \in StageNames \cup {"done"}
    /\ call.attempt \in 0 .. MaxAttempts
    /\ \A i \in Seeds : think[i].attempt \in 0 .. MaxAttempts
    /\ Len(result) <= 1
    /\ failed_count \in 0 .. MaxPaths


\* ===================================================================
\* The model invoker on its own: one _call_llm call against a provider
\* that may answer, fail or hang, with the clock in seconds.
\* ===================================================================

\* (variant: the clamp is missing)
ClampTokensOff(m) == m

\* base.py 245-255
ClampTokens(m) == IF m > MaxAllowedTokens THEN MaxAllowedTokens ELSE m

\* (variant: the exponent is the attempt number, not one less)
WaitExponentialFromTwo(n) ==
    Max2(Max2(0, WaitMin), Min2(WaitMultiplier * 2 ^ n, WaitMax))

\* tenacity wait_exponential.__call__ for the n-th failed attempt:
\* max(max(0, min), min(multiplier * 2 ** (n - 1), max))
WaitExponential(n) ==
    Max2(Max2(0, WaitMin), Min2(WaitMultiplier * 2 ^ (n - 1), WaitMax))

\* (variant: the attempt is awaited without wait_for)
TimeoutNever(e, t) == FALSE

\* gemini.py 118-122: asyncio.wait_for(..., timeout=self.timeout)
TimeoutElapsed(e, t) == e >= t

\* str.strip()
IsSpace(c) == c \in {" ", "\n"}
RECURSIVE LStrip(_)
LStrip(t) == IF t # <<>> /\ IsSpace(Head(t)) THEN LStrip(Tail(t)) ELSE t
RECURSIVE RStrip(_)
RStrip(t) ==
    IF t # <<>> /\ IsSpace(t[Len(t)]) THEN RStrip(SubSeq(t, 1, Len(t) - 1)) ELSE t
Strip(t) == LStrip(RStrip(t))

\* gemini.py 137: `if not response.text` (the accessor itself raises
\* ValueError when the response has no part)
NoText(resp) == resp.kind = "no_part" \/ resp.text = <<>>

\* tenacity after a failed attempt: sleep and retry, or give up
InvokeAttemptEnds(exc) ==
    IF inv.attempt < MaxAttempts
    THEN inv' = [inv EXCEPT !.st = "backoff",
                            !.outcomes = Append(@, exc),
                            !.wait = WaitExponential(inv.attempt),
                            !.elapsed = 0]
    ELSE inv' = [inv EXCEPT !.st = "raised",
                            !.outcomes = Append(@, exc),
                            !.exc = InvokerFailure(exc)]

PipelineVars ==
    <<query, n_paths, top_k, pc, call, plan_result, research_step,
      research_results, think, arrival, valid_candidates, failed_count,
      critic_input, refiner_input, critique_result, refinement_result,
      meta_refinement_result, result, failure, started, finished, raised, called>>

\* _call_llm clamps max_tokens and calls the client, which makes its first
\* attempt with the clamped value in generation_config
InvokeStart ==
    /\ inv.st = "idle"
    /\ inv' = [inv EXCEPT !.st = "inflight", !.attempt = 1, !.elapsed = 0,
                          !.sent = <<ClampTokens(inv.requested)>>]
    /\ UNCHANGED <<PipelineVars, norm, crit, req, ref, bud, tool>>

\* a second passes while the provider call is awaited
InvokeTick ==
    /\ inv.st = "inflight"
    /\ ~TimeoutElapsed(inv.elapsed, inv.timeout)
    /\ inv.elapsed <= MaxTimeout
    /\ inv' = [inv EXCEPT !.elapsed = @ + 1]
    /\ UNCHANGED <<PipelineVars, norm, crit, req, ref, bud, tool>>

\* gemini.py 124-134: wait_for cancels the provider call and raises
InvokeTimesOut ==
    /\ inv.st = "inflight"
    /\ TimeoutElapsed(inv.elapsed, inv.timeout)
    /\ InvokeAttemptEnds("asyncio.TimeoutError")
    /\ UNCHANGED <<PipelineVars, norm, crit, req, ref, bud, tool>>

\* the provider call raises before the timeout
InvokeProviderError ==
    /\ inv.st = "inflight"
    /\ ~TimeoutElapsed(inv.elapsed, inv.timeout)
    /\ InvokeAttemptEnds("ProviderError")
    /\ UNCHANGED <<PipelineVars, norm, crit, req, ref, bud, tool>>

\* gemini.py 136-154: the provider answers before the timeout
InvokeResponds ==
    /\ inv.st = "inflight"
    /\ ~TimeoutElapsed(inv.elapsed, inv.timeout)
    /\ \E resp \in ProviderResponses :
         IF NoText(resp)
         THEN InvokeAttemptEnds("ValueError")
         ELSE inv' = [inv EXCEPT !.st = "returned",
                                 !.outcomes = Append(@, "ok"),
                                 !.value = <<Strip(resp.text)>>]
    /\ UNCHANGED <<PipelineVars, norm, crit, req, ref, bud, tool>>

\* a second of the backoff sleep passes
InvokeBackoffTick ==
    /\ inv.st = "backoff"
    /\ inv.elapsed < inv.wait
    /\ inv' = [inv EXCEPT !.elapsed = @ + 1]
    /\ UNCHANGED <<PipelineVars, norm, crit, req, ref, bud, tool>>

\* the sleep is over: tenacity calls generate_content_async again with the
\* same arguments
InvokeRetry ==
    /\ inv.st = "backoff"
    /\ inv.elapsed = inv.wait
    /\ inv' = [inv EXCEPT !.st = "inflight", !.attempt = @ + 1, !.elapsed = 0,
                          !.waits = Append(@, inv.elapsed),
                          !.sent = Append(@, ClampTokens(inv.requested))]
    /\ UNCHANGED <<PipelineVars, norm, crit, req, ref, bud, tool>>

InvokerInit ==
    /\ PipelineInit
    /\ query = "q" /\ n_paths = 1 /\ top_k = 1
    /\ \E m \in RequestedTokens, t \in 1 .. MaxTimeout :
         inv = [NoInvoke EXCEPT !.requested = m, !.timeout = t]
    /\ norm = NoNormalize
    /\ crit = NoCritique
    /\ req = NoRequest
    /\ ref = NoRefine
    /\ bud = NoBudget
    /\ tool = NoTool

InvokerNext ==
    \/ InvokeStart
    \/ InvokeTick
    \/ InvokeTimesOut
    \/ InvokeProviderError
    \/ InvokeResponds
    \/ InvokeBackoffTick
    \/ InvokeRetry

\* The event loop always runs a ready timer or callback: time passes while
\* the call is suspended, so the timeout and the backoff sleep both end.
InvokerSpec == InvokerInit /\ [][InvokerNext]_vars /\ WF_vars(InvokerNext)

\* ===================================================================
\* The response normalizer on its own: _parse_json_with_recovery applied
\* to one response text and one fallback.
\* ===================================================================

\* json.decoder WHITESPACE.match(s, i).end()
RECURSIVE SkipSpace(_, _)
SkipSpace(t, i) ==
    IF i <= Len(t) /\ IsSpace(t[i]) THEN SkipSpace(t, i + 1) ELSE i

NullValue == [t |-> "none", s |-> <<>>, kv |-> <<>>]
NoParse == [ok |-> FALSE, v |-> NullValue, next |-> 0]

\* json.decoder scanstring (strict): the closing quote at or after i, 0 when
\* a control character or the end of the text comes first
RECURSIVE ClosingQuote(_, _)
ClosingQuote(t, i) ==
    IF i > Len(t) THEN 0
    ELSE IF t[i] = Quote THEN i
    ELSE IF t[i] = Newline THEN 0
    ELSE ClosingQuote(t, i + 1)

\* the string literal whose opening quote is t[i]
ScanString(t, i) ==
    LET j == ClosingQuote(t, i + 1)
    IN  IF j = 0 THEN NoParse
        ELSE [ok |-> TRUE, v |-> StrValue(SubSeq(t, i + 1, j - 1)), next |-> j + 1]

RECURSIVE ScanOnce(_, _)
RECURSIVE JSONObject(_, _)

\* json.scanner scan_once: the value that starts at t[i]
ScanOnce(t, i) ==
    IF i > Len(t) THEN NoParse
    ELSE IF t[i] = Quote THEN ScanString(t, i)
    ELSE IF t[i] = "{" THEN JSONObject(t, i + 1)
    ELSE NoParse

\* json.decoder JSONObject: the object whose "{" is t[i - 1]
JSONObject(t, i) ==
    LET a == SkipSpace(t, i)
    IN  IF a > Len(t) THEN NoParse
        ELSE IF t[a] = "}" THEN [ok |-> TRUE, v |-> ObjValue(<<>>), next |-> a + 1]
        ELSE IF t[a] # Quote THEN NoParse
        ELSE LET k == ScanString(t, a)
                 b == SkipSpace(t, k.next)
             IN  IF ~k.ok \/ b > Len(t) THEN NoParse
                 ELSE IF t[b] # ":" THEN NoParse
                 ELSE LET val == ScanOnce(t, SkipSpace(t, b + 1))
                          c == SkipSpace(t, val.next)
                      IN  IF ~val.ok \/ c > Len(t) THEN NoParse
                          ELSE IF t[c] # "}" THEN NoParse
                          ELSE [ok |-> TRUE,
                                v |-> ObjValue(<< <<k.v.s, val.v>> >>),
                                next |-> c + 1]

\* json.loads: <<value>>, or <<>> for JSONDecodeError (no value, or extra
\* data after it)
JsonLoads(t) ==
    LET r == ScanOnce(t, SkipSpace(t, 1))
    IN  IF r.ok /\ SkipSpace(t, r.next) > Len(t) THEN <<r.v>> ELSE <<>>

\* bool(value)
Truthy(v) ==
    CASE v.t = "str" -> v.s # <<>>
      [] v.t = "obj" -> v.kv # <<>>
      [] OTHER -> v.t = "true"

Count(t, c) == Cardinality({i \in 1 .. Len(t) : t[i] = c})
EndsWith(t, c) == t # <<>> /\ t[Len(t)] = c
Indices(t, c) == {i \in 1 .. Len(t) : t[i] = c}
FirstIndex(t, c) ==
    IF Indices(t, c) = {} THEN 0
    ELSE CHOOSE i \in Indices(t, c) : \A j \in Indices(t, c) : i <= j
LastIndex(t, c) ==
    IF Indices(t, c) = {} THEN 0
    ELSE CHOOSE i \in Indices(t, c) : \A j \in Indices(t, c) : i >= j

\* index of the first line break at or after `from`, Len(t) + 1 if none
RECURSIVE LineEnd(_, _)
LineEnd(t, from) ==
    IF from > Len(t) \/ t[from] = Newline THEN from ELSE LineEnd(t, from + 1)

\* base.py 389-404: walk the lines; where the braces seen so far balance and
\* the line ends with "}", parse the text up to there; return the first
\* that parses
RECURSIVE BraceBalanceFrom(_, _)
BraceBalanceFrom(t, from) ==
    IF from > Len(t) + 1 THEN <<>>
    ELSE LET e == LineEnd(t, from)
             line == SubSeq(t, from, e - 1)
             upto == SubSeq(t, 1, e - 1)
         IN  IF /\ Count(upto, "{") = Count(upto, "}")
                /\ EndsWith(Strip(line), "}")
                /\ JsonLoads(upto) # <<>>
             THEN JsonLoads(upto)
             ELSE BraceBalanceFrom(t, e + 1)

BraceBalance(t) == BraceBalanceFrom(t, 1)

\* the first text of `attempts` that json.loads accepts
RECURSIVE FirstParsed(_)
FirstParsed(attempts) ==
    IF attempts = <<>> THEN <<>>
    ELSE IF JsonLoads(Head(attempts)) # <<>> THEN JsonLoads(Head(attempts))
    ELSE FirstParsed(Tail(attempts))

\* base.py 406-419: close an unterminated string and the object
StringClosing(t) ==
    IF Count(t, Quote) > 0 /\ ~EndsWith(Strip(t), "}")
    THEN FirstParsed(<< t \o <<Quote, "}", Newline, "}">>,
                        t \o <<Quote, "}">>,
                        SubSeq(t, 1, LastIndex(t, Quote) - 1) \o <<Quote, "}">> >>)
    ELSE <<>>

\* base.py 421-427: re.search(r'\{.*\}', response, re.DOTALL), the block from
\* the first "{" to the last "}"
EmbeddedBlock(t) ==
    LET f == FirstIndex(t, "{")
        l == LastIndex(t, "}")
    IN  IF f # 0 /\ l > f THEN JsonLoads(SubSeq(t, f, l)) ELSE <<>>

\* (variant: only a JSON object is accepted as the parsed record)
DirectParseObjectsOnly(response) ==
    IF JsonLoads(response) # <<>> /\ JsonLoads(response)[1].t = "obj"
    THEN JsonLoads(response)
    ELSE <<>>

\* base.py 346-347: return json.loads(response)
DirectParse(response) == JsonLoads(response)

\* base.py 437-460
GenericFallback(raw) ==
    ObjValue(<< <<(<<"error">>), StrValue(<<"JSON parsing failed">>)>>,
                <<(<<"raw_response">>), StrValue(raw)>>,
                <<(<<"fallback">>), TrueValue>> >>)

\* (variant: the supplied fallback is ignored)
ChooseFallbackGeneric(fb, raw) == GenericFallback(raw)

\* base.py 367-371: `if fallback_result: return fallback_result`, else the
\* generic record
ChooseFallback(fb, raw) ==
    IF fb # <<>> /\ Truthy(fb[1]) THEN fb[1] ELSE GenericFallback(raw)

NormFrame == <<PipelineVars, inv, crit, req, ref, bud, tool>>

\* base.py 345-347: the direct parse; JSONDecodeError enters the handler,
\* where _attempt_json_recovery first strips the text
NormDirect ==
    /\ norm.pc = "direct"
    /\ IF DirectParse(norm.text) # <<>>
       THEN norm' = [norm EXCEPT !.pc = "done", !.out = DirectParse(norm.text),
                                 !.via = "direct"]
       ELSE norm' = [norm EXCEPT !.pc = "brace_balance"]
    /\ UNCHANGED NormFrame

NormBraceBalance ==
    /\ norm.pc = "brace_balance"
    /\ LET r == BraceBalance(Strip(norm.text))
       IN  norm' = [norm EXCEPT !.consulted = Append(@, "brace_balance"),
                                !.recovered = r,
                                !.pc = IF r # <<>> THEN "recovered"
                                       ELSE "string_closing"]
    /\ UNCHANGED NormFrame

NormStringClosing ==
    /\ norm.pc = "string_closing"
    /\ LET r == StringClosing(Strip(norm.text))
       IN  norm' = [norm EXCEPT !.consulted = Append(@, "string_closing"),
                                !.recovered = r,
                                !.pc = IF r # <<>> THEN "recovered"
                                       ELSE "embedded_block"]
    /\ UNCHANGED NormFrame

NormEmbeddedBlock ==
    /\ norm.pc = "embedded_block"
    /\ norm' = [norm EXCEPT !.consulted = Append(@, "embedded_block"),
                            !.recovered = EmbeddedBlock(Strip(norm.text)),
                            !.pc = "recovered"]
    /\ UNCHANGED NormFrame

\* base.py 358-371: `if recovered_result: return recovered_result`, else
\* the fallback
NormReturn ==
    /\ norm.pc = "recovered"
    /\ IF norm.recovered # <<>> /\ Truthy(norm.recovered[1])
       THEN norm' = [norm EXCEPT !.pc = "done", !.out = norm.recovered,
                                 !.via = "recovery"]
       ELSE norm' = [norm EXCEPT !.pc = "done",
                                 !.out = <<ChooseFallback(norm.fallback, norm.text)>>,
                                 !.via = "fallback"]
    /\ UNCHANGED NormFrame

NormalizerInit ==
    /\ PipelineInit
    /\ query = "q" /\ n_paths = 1 /\ top_k = 1
    /\ inv = NoInvoke
    /\ crit = NoCritique
    /\ req = NoRequest
    /\ ref = NoRefine
    /\ bud = NoBudget
    /\ tool = NoTool
    /\ \E t \in ResponseTexts, fb \in Fallbacks :
         norm = [NoNormalize EXCEPT !.pc = "direct", !.text = t, !.fallback = fb]

NormalizerNext ==
    \/ NormDirect
    \/ NormBraceBalance
    \/ NormStringClosing
    \/ NormEmbeddedBlock
    \/ NormReturn

NormalizerSpec == NormalizerInit /\ [][NormalizerNext]_vars

\* ===================================================================
\* The critic's validation on its own: critic.execute from the point the
\* invoker has returned, for one list of candidates and one model output.
\* ===================================================================

\* critic.py 243-268 (weighted_total_score in tenths: 5.0)
DefaultEvaluation(id) ==
    [agent_id |-> id,
     rubric_scores |-> [r \in Rubrics |-> 5],
     weighted_total_score |-> 50,
     default |-> TRUE]

RECURSIVE SumOver(_, _)
SumOver(f, S) ==
    IF S = {} THEN 0
    ELSE LET x == CHOOSE y \in S : TRUE IN f[x] + SumOver(f, S \ {x})

\* (variant: the score is taken as the model gave it)
ClampScoreOff(sc) == sc

\* critic.py 216: max(0, min(10, float(raw_score)))
ClampScore(sc) == Max2(0, Min2(10, sc))

\* critic.py 215: the "score" of one rubric, 5 when the key is absent
ScoreOrDefault(d) == IF d = <<>> THEN DefaultScore ELSE d[1]

\* critic.py 189-241 (weighted_total_score in tenths); the evaluation's own
\* weighted_total_score is not read
ValidateEvaluation(e, id) ==
    LET scores == [r \in Rubrics |->
                      ClampScore(ScoreOrDefault(e.rubric_scores[r]))]
    IN  [agent_id |-> id,
         rubric_scores |-> scores,
         weighted_total_score |->
             SumOver([r \in Rubrics |-> scores[r] * RubricWeight[r]], Rubrics),
         default |-> FALSE]

\* (variant: a candidate the model did not evaluate gets no evaluation)
EnhanceEvaluationsNoDefaults(evaluations, candidate_ids) ==
    LET known == SelectSeq(candidate_ids,
                     LAMBDA id : \E j \in DOMAIN evaluations :
                                    evaluations[j].agent_id = id)
    IN  [k \in DOMAIN known |->
            LET js == {j \in DOMAIN evaluations : evaluations[j].agent_id = known[k]}
            IN  ValidateEvaluation(
                    evaluations[CHOOSE j \in js : \A i \in js : j <= i], known[k])]

\* critic.py 149-162: for each candidate id, in candidate order, the first
\* evaluation of the model with that agent_id, validated, or the default
EnhanceEvaluations(evaluations, candidate_ids) ==
    [k \in DOMAIN candidate_ids |->
        LET id == candidate_ids[k]
            js == {j \in DOMAIN evaluations : evaluations[j].agent_id = id}
        IN  IF js # {}
            THEN ValidateEvaluation(
                     evaluations[CHOOSE j \in js : \A i \in js : j <= i], id)
            ELSE DefaultEvaluation(id)]

\* (variant: sorted ascending and then reversed, which reverses ties)
RankOfTiesReversed(evals, k) ==
    1 + Cardinality({j \in DOMAIN evals :
                        \/ evals[j].weighted_total_score > evals[k].weighted_total_score
                        \/ /\ evals[j].weighted_total_score = evals[k].weighted_total_score
                           /\ j > k})

\* critic.py 270-299: sorted(..., reverse=True) by weighted_total_score is
\* stable, and ranks count from 1
RankOf(evals, k) ==
    1 + Cardinality({j \in DOMAIN evals :
                        \/ evals[j].weighted_total_score > evals[k].weighted_total_score
                        \/ /\ evals[j].weighted_total_score = evals[k].weighted_total_score
                           /\ j < k})

CreateRanking(evals) ==
    [p \in DOMAIN evals |->
        LET k == CHOOSE i \in DOMAIN evals : RankOf(evals, i) = p
        IN  [agent_id |-> evals[k].agent_id,
             weighted_total_score |-> evals[k].weighted_total_score,
             rank |-> p]]

\* critic.py 337-366: a model evaluation list standing in for the fallback
\* critique is the default evaluation of every candidate
FallbackCritique(candidate_ids) ==
    [k \in DOMAIN candidate_ids |->
        [agent_id |-> candidate_ids[k],
         rubric_scores |->
             [r \in Rubrics |->
                 <<DefaultEvaluation(candidate_ids[k]).rubric_scores[r]>>],
         weighted_total_score |->
             <<DefaultEvaluation(candidate_ids[k]).weighted_total_score>>]]

CritFrame == <<PipelineVars, inv, norm, req, ref, bud, tool>>

\* critic.py 66-68: the response is normalized, with the fallback critique
\* as the fallback record
CriticNormalizes ==
    /\ crit.pc = "normalize"
    /\ crit' = [crit EXCEPT
                  !.pc = "validate",
                  !.critique =
                      IF crit.output.kind = "unparseable"
                      THEN [kind |-> "fallback",
                            evaluations |-> FallbackCritique(crit.candidates)]
                      ELSE crit.output]
    /\ UNCHANGED CritFrame

\* critic.py 70-90: _validate_and_enhance_critique returns
CriticValidates ==
    /\ crit.pc = "validate"
    /\ crit.critique.kind # "malformed"
    /\ LET evals == EnhanceEvaluations(crit.critique.evaluations, crit.candidates)
       IN  crit' = [crit EXCEPT !.pc = "returned",
                                !.evaluations = evals,
                                !.ranking = CreateRanking(evals)]
    /\ UNCHANGED CritFrame

\* critic.py 145-154 and 85-92: "evaluations" is not a list of objects, so
\* iterating it or calling e.get raises, and execute re-raises
CriticRaises ==
    /\ crit.pc = "validate"
    /\ crit.critique.kind = "malformed"
    /\ crit' = [crit EXCEPT !.pc = "raised", !.exc = "TypeError"]
    /\ UNCHANGED CritFrame

\* top_k values handed to the refiner: up to one more than there can be
\* candidates
TopKRange == 1 .. (MaxPaths + 1)

\* (variant: the first top_k candidates in submission order)
GetTopCandidatesUnranked(ranking, candidate_ids, k) ==
    [p \in 1 .. Min2(k, Len(candidate_ids)) |->
        [agent_id |-> candidate_ids[p], rank |-> p]]

\* refiner.py 123-139: for each entry of ranking[:top_k] whose agent_id is a
\* candidate's, that candidate with its rank
GetTopCandidates(ranking, candidate_ids, k) ==
    LET head == SubSeq(ranking, 1, Min2(k, Len(ranking)))
        known == SelectSeq(head,
                     LAMBDA r : \E c \in DOMAIN candidate_ids :
                                   candidate_ids[c] = r.agent_id)
    IN  [p \in DOMAIN known |->
            [agent_id |-> known[p].agent_id, rank |-> known[p].rank]]

\* refiner.py 41-54: refiner.execute is given the critique, the candidates
\* and top_k, and picks the candidates to synthesize
RefinerSelects ==
    /\ crit.pc = "returned"
    /\ \E k \in TopKRange :
         crit' = [crit EXCEPT
                    !.pc = "selected",
                    !.top_k = k,
                    !.top_candidates =
                        GetTopCandidates(crit.ranking, crit.candidates, k)]
    /\ UNCHANGED CritFrame

CriticInit ==
    /\ PipelineInit
    /\ query = "q" /\ n_paths = 1 /\ top_k = 1
    /\ inv = NoInvoke
    /\ norm = NoNormalize
    /\ req = NoRequest
    /\ ref = NoRefine
    /\ bud = NoBudget
    /\ tool = NoTool
    /\ \E cands \in CandidateLists, out \in CriticOutputs :
         crit = [NoCritique EXCEPT !.pc = "normalize", !.candidates = cands,
                                   !.output = out, !.critique = out]

CriticNext ==
    \/ CriticNormalizes
    \/ CriticValidates
    \/ CriticRaises
    \/ RefinerSelects

CriticSpec == CriticInit /\ [][CriticNext]_vars

\* the same steps for one candidate and one model evaluation whose rubric
\* scores vary independently, or an output that is malformed or unparseable
ScoreInit ==
    /\ PipelineInit
    /\ query = "q" /\ n_paths = 1 /\ top_k = 1
    /\ inv = NoInvoke
    /\ norm = NoNormalize
    /\ req = NoRequest
    /\ ref = NoRefine
    /\ bud = NoBudget
    /\ tool = NoTool
    /\ \E out \in {[kind |-> "evaluations", evaluations |-> <<e>>] :
                        e \in ScoredEvaluations}
                  \cup {[kind |-> k, evaluations |-> <<>>] :
                          k \in {"malformed", "unparseable"}} :
         crit = [NoCritique EXCEPT !.pc = "normalize", !.candidates = <<0>>,
                                   !.output = out, !.critique = out]

ScoreSpec == ScoreInit /\ [][CriticNext]_vars

\* ------------------------------------------------------- request model
\* DeepThinkRequest(**fields): pydantic validates the fields in the order
\* they are declared (query, n_paths, top_k; max_iterations and timeout
\* bear on no other field and are left out), collects the errors, and
\* raises ValidationError if there is any.  A field that is absent takes its
\* default, and field validators are not run on defaults.

ReqFrame == <<PipelineVars, inv, norm, crit, ref, bud, tool>>

\* request.py 64-76: validate_query_content
ValidateQueryContent(v) ==
    IF Strip(v) = <<>>
    THEN [ok |-> FALSE, value |-> v]
    ELSE [ok |-> TRUE, value |-> Strip(v)]

\* request.py 14-19 and 64-76: the str constraints, then the validator
ValidateQuery(raw) ==
    IF raw = <<>> THEN [ok |-> FALSE, value |-> <<>>]
    ELSE IF Len(raw[1]) < QueryMinLength THEN [ok |-> FALSE, value |-> raw[1]]
    ELSE ValidateQueryContent(raw[1])

\* request.py 49-62: validate_top_k_against_n_paths(v, info), where data is
\* info.data, the fields validated so far
ValidateTopKAgainstNPaths(v, data) ==
    LET n == IF data.n_paths = <<>> THEN NPathsDefault ELSE data.n_paths[1]
    IN  IF v > n THEN n ELSE v

RequestValidatesQuery ==
    /\ req.pc = "query"
    /\ LET r == ValidateQuery(req.query)
       IN  req' = [req EXCEPT
                     !.pc = "n_paths",
                     !.data.query = IF r.ok THEN <<r.value>> ELSE <<>>,
                     !.errors = IF r.ok THEN @ ELSE @ \cup {"query"}]
    /\ UNCHANGED ReqFrame

\* request.py 21-26: default 8, ge=1, le=32
RequestValidatesNPaths ==
    /\ req.pc = "n_paths"
    /\ req' = [req EXCEPT
                 !.pc = "top_k",
                 !.data.n_paths =
                     IF req.n_paths = <<>> THEN <<NPathsDefault>>
                     ELSE IF req.n_paths[1] \in NPathsGe .. NPathsLe
                          THEN req.n_paths ELSE <<>>,
                 !.errors =
                     IF req.n_paths # <<>> /\ req.n_paths[1] \notin NPathsGe .. NPathsLe
                     THEN @ \cup {"n_paths"} ELSE @]
    /\ UNCHANGED ReqFrame

\* request.py 35-40 and 49-62: default 3, ge=1, le=10, then the validator
RequestValidatesTopK ==
    /\ req.pc = "top_k"
    /\ req' = [req EXCEPT
                 !.pc = "construct",
                 !.data.top_k =
                     IF req.top_k = <<>> THEN <<TopKDefault>>
                     ELSE IF req.top_k[1] \in TopKGe .. TopKLe
                          THEN <<ValidateTopKAgainstNPaths(req.top_k[1], req.data)>>
                          ELSE <<>>,
                 !.errors =
                     IF req.top_k # <<>> /\ req.top_k[1] \notin TopKGe .. TopKLe
                     THEN @ \cup {"top_k"} ELSE @]
    /\ UNCHANGED ReqFrame

\* the model instance is returned, or ValidationError is raised
RequestConstructs ==
    /\ req.pc = "construct"
    /\ req' = [req EXCEPT
                 !.pc = "done",
                 !.outcome = IF req.errors = {} THEN "constructed"
                             ELSE "ValidationError"]
    /\ UNCHANGED ReqFrame

\* pipeline.run is called: by a caller of its own with any arguments
\* (req.pc = "direct"), or by the /think endpoint with the fields of the
\* request once it is constructed (main.py 166-172); the query of the
\* pipeline is "" exactly if the text handed over is empty.
RunCalled ==
    \/ req.pc = "direct"
    \/ /\ req.pc = "done"
       /\ req.outcome = "constructed"
       /\ (query = "") <=> (req.data.query[1] = <<>>)
       /\ n_paths = req.data.n_paths[1]
       /\ top_k = req.data.top_k[1]

\* the steps of the run that was called
EndpointRuns ==
    /\ RunCalled
    /\ Next

\* the arguments of run are those of a one-path run; the request is any
\* combination of fields, or there is none and run is called directly
RequestInit ==
    /\ PipelineInit
    /\ n_paths = 1 /\ top_k = 1
    /\ inv = NoInvoke
    /\ norm = NoNormalize
    /\ crit = NoCritique
    /\ ref = NoRefine
    /\ bud = NoBudget
    /\ tool = NoTool
    /\ \/ req = [NoRequest EXCEPT !.pc = "direct"]
       \/ /\ query = "q"
          /\ \E q \in RequestQueries, n \in RequestNPaths, k \in RequestTopK :
               req = [NoRequest EXCEPT !.pc = "query", !.query = q,
                                       !.n_paths = n, !.top_k = k]

RequestNext ==
    \/ RequestValidatesQuery
    \/ RequestValidatesNPaths
    \/ RequestValidatesTopK
    \/ RequestConstructs
    \/ EndpointRuns

RequestSpec == RequestInit /\ [][RequestNext]_vars

\* ===================================================================
\* RefinerAgent._validate_and_enhance_result, on its own
\* ===================================================================
\* One Refine output is parsed and validated against the selected
\* candidates.  A candidate's "answer" is whatever the Think output held
\* under that key (thinker.py 131 copies it without looking at its type).

PyStr(s) == [type |-> "str", v |-> s]
\* the one-element list [s]
PyList(s) == [type |-> "list", v |-> s]
\* the number whose digits are s
PyInt(s) == [type |-> "int", v |-> s]

\* what a selected candidate holds under "answer"
CandidateAnswers == {PyStr("A"), PyStr("B"), PyList("x"), PyNone}

\* what the model's Refine output holds under "final_answer": the key is
\* absent, or it is a null, a text, a list or a number
FinalAnswerOutputs ==
    {<<>>, <<PyNone>>, <<PyStr("t")>>, <<PyStr("")>>, <<PyList("a")>>,
     <<PyInt("42")>>}

RECURSIVE AnswerLists(_)
\* the lists of at most n selected candidates' answers
AnswerLists(n) ==
    IF n = 0 THEN {<<>>}
    ELSE AnswerLists(n - 1) \cup
         {Append(l, a) : l \in {m \in AnswerLists(n - 1) : Len(m) = n - 1},
                         a \in CandidateAnswers}

RefFrame == <<PipelineVars, inv, norm, crit, req, bud, tool>>

\* json.dumps(value, indent=2)
JsonDumps(x) ==
    CASE x.type = "list" -> PyStr("[\n  \"" \o x.v \o "\"\n]")
      [] x.type = "int" -> PyStr(x.v)
      [] x.type = "NoneType" -> PyStr("null")
      [] OTHER -> PyStr("\"" \o x.v \o "\"")

\* what an f-string makes of a value
FormatValue(x) ==
    CASE x.type = "list" -> "['" \o x.v \o "']"
      [] OTHER -> x.v

\* refiner.py 366-389
CreateSimpleSynthesis(top) ==
    IF top = <<>>
    THEN PyStr("Unable to synthesize answer from candidates.")
    ELSE IF Len(top) > 1
         THEN PyStr(FormatValue(top[1]) \o "\n\n"
                    \o "Additional perspectives from other candidates support this conclusion "
                    \o "with " \o ToString(Len(top))
                    \o " independent reasoning paths leading to similar results.")
         ELSE top[1]

\* refiner.py 391-418: the record used when the output cannot be parsed
CreateRefinerFallback(top) == [final_answer |-> <<CreateSimpleSynthesis(top)>>]

\* refiner.py 246-260: result.get("final_answer") is None for an absent key
\* and for a null
ValidateFinalAnswer(res, top) ==
    LET raw_final_answer ==
            IF res.final_answer = <<>> THEN PyNone ELSE res.final_answer[1]
    IN  IF raw_final_answer.type = "str" THEN raw_final_answer
        ELSE IF raw_final_answer.type = "NoneType"
             THEN CreateSimpleSynthesis(top)
             ELSE JsonDumps(raw_final_answer)

\* len(value) succeeds
Sized(x) == x.type \in {"str", "list"}

\* refiner.py 75-77: the response parses to the model's record, or the
\* fallback record takes its place
RefinerParses ==
    /\ ref.pc = "called"
    /\ ref' = [ref EXCEPT !.pc = "parsed",
                          !.result = IF ref.parsed
                                     THEN [final_answer |-> ref.raw]
                                     ELSE CreateRefinerFallback(ref.top_candidates)]
    /\ UNCHANGED RefFrame

\* refiner.py 80 and 246-296: the final answer is settled, and the debug
\* record takes its len(); execute re-raises what that raises (97-104)
RefinerValidates ==
    /\ ref.pc = "parsed"
    /\ LET final_answer == ValidateFinalAnswer(ref.result, ref.top_candidates)
       IN  ref' = IF Sized(final_answer)
                  THEN [ref EXCEPT !.pc = "validated",
                                   !.final_answer = final_answer]
                  ELSE [ref EXCEPT !.pc = "raised", !.exc = "TypeError"]
    /\ UNCHANGED RefFrame

RefinerInit ==
    /\ PipelineInit
    /\ inv = NoInvoke
    /\ norm = NoNormalize
    /\ crit = NoCritique
    /\ req = NoRequest
    /\ bud = NoBudget
    /\ tool = NoTool
    /\ \E p \in BOOLEAN, raw \in FinalAnswerOutputs,
          top \in AnswerLists(MaxTopK) :
         /\ ~p => raw = <<>>
         /\ ref = [NoRefine EXCEPT !.pc = "called", !.parsed = p, !.raw = raw,
                                   !.top_candidates = top]

RefinerNext ==
    \/ RefinerParses
    \/ RefinerValidates

RefinerSpec == RefinerInit /\ [][RefinerNext]_vars

\* ===================================================================
\* PlannerAgent._normalize_thinking_budget, on its own
\* ===================================================================
\* One plan is validated: plan.get("thinking_budget") is normalised.  A
\* value is a record of its Python type, its number (int, bool) and its
\* characters (str).

MaxBudgetLen == 3
BudgetMin == 5
BudgetMax == 15
BudgetNoDigits == 10
BudgetDefault == 10

BudgetChars == {"1", "2", "s", "-"}
Digits == {"1", "2"}
DigitValue(c) == IF c = "1" THEN 1 ELSE 2

BudgetValue(t, n, s) == [type |-> t, n |-> n, s |-> s]

RECURSIVE BudgetTexts(_)
\* the texts of at most n characters
BudgetTexts(n) ==
    IF n = 0 THEN {<<>>}
    ELSE BudgetTexts(n - 1) \cup
         {Append(t, c) : t \in {u \in BudgetTexts(n - 1) : Len(u) = n - 1},
                         c \in BudgetChars}

\* what the model's plan holds under "thinking_budget": the key is absent,
\* or it is a null, an integer, a boolean, a float, a list or a text
BudgetOutputs ==
    {<<>>}
    \cup {<<BudgetValue(t, 0, <<>>)>> : t \in {"NoneType", "float", "list"}}
    \cup {<<BudgetValue("int", n, <<>>)>> :
             n \in (BudgetMin - 3) .. (BudgetMax + 3)}
    \cup {<<BudgetValue("bool", n, <<>>)>> : n \in {0, 1}}
    \cup {<<BudgetValue("str", 0, s)>> : s \in BudgetTexts(MaxBudgetLen)}

BudFrame == <<PipelineVars, inv, norm, crit, req, ref, tool>>

RECURSIVE DigitsValue(_)
\* int() of a run of digits
DigitsValue(ds) ==
    IF ds = <<>> THEN 0
    ELSE 10 * DigitsValue(SubSeq(ds, 1, Len(ds) - 1)) + DigitValue(ds[Len(ds)])

\* re.findall(r'\d+', text): the maximal runs of digits, leftmost first;
\* here the first of them, as (start, end), for a text that has a digit
FirstRun(s) ==
    LET start == CHOOSE i \in 1 .. Len(s) :
                    /\ s[i] \in Digits
                    /\ \A j \in 1 .. (i - 1) : s[j] \notin Digits
        end == CHOOSE k \in start .. Len(s) :
                    /\ \A j \in start .. k : s[j] \in Digits
                    /\ (k = Len(s) \/ s[k + 1] \notin Digits)
    IN  SubSeq(s, start, end)

HasDigits(s) == \E i \in 1 .. Len(s) : s[i] \in Digits

\* planner.py 165-172: int(numbers[0])
FirstNumber(s) == DigitsValue(FirstRun(s))

\* planner.py 176-178: max(5, min(15, budget))
ClampBudget(n) == Max2(BudgetMin, Min2(BudgetMax, n))

\* planner.py 155-181; isinstance(budget, int) holds for a bool as well
NormalizeThinkingBudget(b) ==
    LET budget ==
            IF b.type = "str"
            THEN IF HasDigits(b.s)
                 THEN BudgetValue("int", FirstNumber(b.s), <<>>)
                 ELSE BudgetValue("int", BudgetNoDigits, <<>>)
            ELSE b
    IN  IF budget.type \in {"int", "bool"}
        THEN ClampBudget(budget.n)
        ELSE BudgetDefault

\* planner.py 120-122: plan.get("thinking_budget") is None for an absent key
PlannerValidates ==
    /\ bud.pc = "parsed"
    /\ bud' = [bud EXCEPT
                  !.pc = "validated",
                  !.thinking_budget =
                      <<NormalizeThinkingBudget(
                            IF bud.budget = <<>>
                            THEN BudgetValue("NoneType", 0, <<>>)
                            ELSE bud.budget[1])>>]
    /\ UNCHANGED BudFrame

BudgetInit ==
    /\ PipelineInit
    /\ inv = NoInvoke
    /\ norm = NoNormalize
    /\ crit = NoCritique
    /\ req = NoRequest
    /\ ref = NoRefine
    /\ tool = NoTool
    /\ \E b \in BudgetOutputs :
         bud = [NoBudget EXCEPT !.pc = "parsed", !.budget = b]

BudgetNext == PlannerValidates

BudgetSpec == BudgetInit /\ [][BudgetNext]_vars

\* ===================================================================
\* ToolAgent.execute, on its own
\* ===================================================================
\* One execute over the plan's research steps (every step has a query that
\* is not empty, planner.py 207-208), with or without a Tavily key.

TavilyLimit == 3

StepTypes == {"search", "analysis"}
StepQueries == {"q", "quantum"}
ResearchSteps == [type : StepTypes, query : StepQueries]

RECURSIVE StepLists(_)
\* the plans of at most n research steps
StepLists(n) ==
    IF n = 0 THEN {<<>>}
    ELSE StepLists(n - 1) \cup
         {Append(l, s) : l \in {m \in StepLists(n - 1) : Len(m) = n - 1},
                         s \in ResearchSteps}

ToolFrame == <<PipelineVars, inv, norm, crit, req, ref, bud>>

\* tools.py 70-74: a step is searched when its type is "search" and it has
\* a query
Searched(step) == step.type = "search" /\ step.query # ""

\* the first step after position k that is searched, or 0
NextSearched(steps, k) ==
    IF \E j \in (k + 1) .. Len(steps) : Searched(steps[j])
    THEN CHOOSE j \in (k + 1) .. Len(steps) :
            /\ Searched(steps[j])
            /\ \A h \in (k + 1) .. (j - 1) : ~Searched(steps[h])
    ELSE 0

\* tools.py 206-275: two simulated results for a query with a known
\* keyword, one for any other
SearchFallback(q) ==
    [source |-> "simulated", count |-> IF q = "quantum" THEN 2 ELSE 1]

\* tools.py 75-81 and the loop's next turn, or 83-95 after the last step
StepDone(search_result, failed) ==
    LET step_results ==
            Append(tool.step_results,
                   [step_id |-> tool.i, query |-> tool.research_steps[tool.i].query,
                    results |-> search_result, provider_failed |-> failed])
        j == NextSearched(tool.research_steps, tool.i)
    IN  tool' = [tool EXCEPT !.step_results = step_results,
                             !.i = j,
                             !.in_flight = IF j = 0 THEN 0 ELSE 1,
                             !.pc = IF j = 0 THEN "returned" ELSE "searching"]

\* tools.py 41-75: the guard, then the loop up to the first search
ToolExecute ==
    /\ tool.pc = "called"
    /\ IF tool.research_steps = <<>>
       THEN tool' = [tool EXCEPT !.pc = "raised"]
       ELSE LET j == NextSearched(tool.research_steps, 0)
            IN  tool' = [tool EXCEPT !.i = j,
                                     !.in_flight = IF j = 0 THEN 0 ELSE 1,
                                     !.pc = IF j = 0 THEN "returned"
                                            ELSE "searching"]
    /\ UNCHANGED ToolFrame

\* tools.py 121-122 and 163-195: Tavily answers with at most three results
\* and possibly a direct answer
TavilyReturns ==
    /\ tool.pc = "searching"
    /\ tool.tavily_api_key
    /\ \E n \in 0 .. (TavilyLimit + 1) :
         StepDone([source |-> "tavily", count |-> n], FALSE)
    /\ UNCHANGED ToolFrame

\* tools.py 197-204 and 132-141: the request to Tavily fails; search
\* catches the exception and returns the simulated results
TavilyFails ==
    /\ tool.pc = "searching"
    /\ tool.tavily_api_key
    /\ StepDone(SearchFallback(tool.research_steps[tool.i].query), TRUE)
    /\ UNCHANGED ToolFrame

\* tools.py 123-130: without a key the simulated results are returned
SearchSimulated ==
    /\ tool.pc = "searching"
    /\ ~tool.tavily_api_key
    /\ StepDone(SearchFallback(tool.research_steps[tool.i].query), FALSE)
    /\ UNCHANGED ToolFrame

ToolInit ==
    /\ PipelineInit
    /\ inv = NoInvoke
    /\ norm = NoNormalize
    /\ crit = NoCritique
    /\ req = NoRequest
    /\ ref = NoRefine
    /\ bud = NoBudget
    /\ \E key \in BOOLEAN, steps \in StepLists(MaxResearchSteps) :
         tool = [NoTool EXCEPT !.pc = "called", !.tavily_api_key = key,
                               !.research_steps = steps]

ToolNext ==
    \/ ToolExecute
    \/ TavilyReturns
    \/ TavilyFails
    \/ SearchSimulated

ToolSpec == ToolInit /\ [][ToolNext]_vars

\* ===================================================================
\* Properties
\* ===================================================================

Used == 0 .. (n_paths - 1)
NumOk == Cardinality({i \in Used : think[i].st = "ok"})
NumFailed == Cardinality({i \in Used : think[i].st = "failed"})
StartedSet == {started[k] : k \in 1 .. Len(started)}
AgentIds(cands) == {cands[k].agent_id : k \in 1 .. Len(cands)}
LaterStages == {"critique", "refinement", "meta_refinement"}
Joined == "thinking" \in finished
ArrivedBefore(i, j) ==
    \E a, b \in 1 .. Len(arrival) : a < b /\ arrival[a] = i /\ arrival[b] = j

\* C1: when the join finds F failed and N-F >= 1 successful Think instances,
\* the run does not raise AllPathsFailed, goes on to Critique, Critique is
\* handed exactly the N-F successful candidates, and a returned result has
\* candidates_generated = N-F and candidates_failed = F.
C1_PartialFailureProceeds ==
    /\ [](Joined /\ NumOk >= 1 =>
            /\ failure.type # AllPathsFailed
            /\ Len(valid_candidates) = NumOk
            /\ AgentIds(valid_candidates) = {i \in Used : think[i].st = "ok"}
            /\ failed_count = n_paths - NumOk
            /\ ("critique" \in StartedSet => critic_input = valid_candidates)
            /\ (result # <<>> =>
                  /\ result[1].metadata.candidates_generated = NumOk
                  /\ result[1].metadata.candidates_failed = NumFailed
                  /\ NumOk + NumFailed = n_paths))
    /\ [][(~Joined /\ Joined' /\ NumOk >= 1) =>
            (pc' = "critique" /\ failure' = NoFailure)]_vars

\* a run of three paths, two failed and one successful, that returned
C1_Witness ==
    /\ result # <<>>
    /\ n_paths = 3
    /\ NumFailed = 2
    /\ NumOk = 1
    /\ result[1].metadata.candidates_generated = 1
    /\ result[1].metadata.candidates_failed = 2

\* C2: the run ends with AllPathsFailed exactly when the join finds every
\* Think instance failed; then nothing of Critique, Refine or Meta-Refine
\* was called and no result is returned.
C2_AllPathsFailedIff ==
    /\ failure.type = AllPathsFailed =>
          /\ NumFailed = n_paths
          /\ result = <<>>
          /\ pc = "done"
          /\ StartedSet \cap LaterStages = {}
          /\ called \cap LaterStages = {}
    /\ (Joined /\ NumFailed = n_paths) => failure.type = AllPathsFailed

C2_Witness ==
    /\ failure.type = AllPathsFailed
    /\ n_paths = 3
    /\ NumFailed = 3

\* C3: a Think instance that fails changes nothing but its own outcome: the
\* siblings keep their state, the orchestrator stays suspended in the join
\* and nothing is raised; the Think stage raises only AllPathsFailed, and
\* only with every instance failed; a thinker is cancelled only by the
\* pipeline deadline.
C3_ThinkFailureIsolated ==
    /\ [][\A i \in Seeds :
            (think[i].st # "failed" /\ think'[i].st = "failed") =>
               /\ \A j \in Seeds \ {i} : think'[j] = think[j]
               /\ pc' = pc
               /\ failure' = failure
               /\ raised' = raised]_vars
    /\ [](failure.stage = "thinking" =>
            (failure.type = AllPathsFailed /\ NumFailed = n_paths))
    /\ [](\A i \in Seeds : think[i].st = "cancelled" => failure.cause = "deadline")

\* a thinker failed first, a sibling succeeded after it, and the run returned
C3_Witness ==
    /\ result # <<>>
    /\ \E i, j \in Used :
         /\ think[i].st = "failed"
         /\ think[j].st = "ok"
         /\ ArrivedBefore(i, j)

Increasing(cands) ==
    \A k \in 1 .. (Len(cands) - 1) : cands[k].agent_id < cands[k + 1].agent_id

\* C4: the candidates collected by the join, and handed to Critique and to
\* Refine, are in increasing agent_id (submission) order whatever the order
\* in which the Think calls finished.
C4_SubmissionOrder ==
    /\ Increasing(valid_candidates)
    /\ Increasing(critic_input)
    /\ Increasing(refiner_input)
    /\ "critique" \in StartedSet => AgentIds(critic_input) = {i \in Used : think[i].st = "ok"}
    /\ "refinement" \in StartedSet => refiner_input = critic_input

\* a later seed finished before an earlier one, both succeeded, and both
\* Critique and Refine were handed the candidates
C4_Witness ==
    /\ "refinement" \in StartedSet
    /\ Len(refiner_input) >= 2
    /\ \E i, j \in Used :
         /\ i < j
         /\ think[i].st = "ok"
         /\ think[j].st = "ok"
         /\ ArrivedBefore(j, i)

\* C5: Critique is not called, and the orchestrator is not past the join,
\* while any Think instance is still unfinished.
C5_CollectAll ==
    (\/ pc \in LaterStages
     \/ StartedSet \cap LaterStages # {}
     \/ called \cap LaterStages # {}
     \/ Joined)
    => \A i \in Used : think[i].st \in {"ok", "failed"}

\* the first thinker to finish succeeded, siblings finished after it, and
\* Critique has made its call
C5_Witness ==
    /\ "critique" \in called
    /\ n_paths >= 2
    /\ Len(arrival) = n_paths
    /\ think[arrival[1]].st = "ok"

Pos(stage) == CHOOSE k \in 1 .. Len(StageOrder) : StageOrder[k] = stage

\* C6: stages are entered in the order Plan, [Research], Think, Critique,
\* Refine, Meta-Refine: the first is Plan, each next one is the successor of
\* the one before (Research may be skipped), every stage entered before the
\* latest one has finished, no stage is entered twice, and a stage makes an
\* external call only once entered.
C6_LinearStageOrder ==
    /\ Len(started) >= 1 => started[1] = "planning"
    /\ \A k \in 1 .. (Len(started) - 1) :
         /\ \/ Pos(started[k + 1]) = Pos(started[k]) + 1
            \/ (started[k] = "planning" /\ started[k + 1] = "thinking")
         /\ started[k] \in finished
    /\ called \subseteq StartedSet
    /\ finished \subseteq StartedSet

\* a run through all six stages that returned
C6_Witness ==
    /\ result # <<>>
    /\ started = StageOrder
    /\ called = StageNames

\* C7: when Plan, Critique or Refine raises, the run ends with that failure,
\* returns no result, and no later stage is entered.
C7_RequiredStageFailureFatal ==
    \A s \in {"planning", "critique", "refinement"} :
        s \in raised =>
            /\ pc = "done"
            /\ result = <<>>
            /\ failure.type # "none"
            /\ failure.stage = s
            /\ started[Len(started)] = s

\* Critique exhausted its attempts and the run ended with its failure
C7_Witness ==
    /\ "critique" \in raised
    /\ failure.stage = "critique"
    /\ failure.type = "RetryError"

\* C8: when Meta-Refine raises, the run returns a result whose answer is
\* Refine's final_answer and whose metadata has meta_refinement_applied =
\* false.
C8_MetaFailureDegrades ==
    "meta_refinement" \in raised =>
        /\ result # <<>>
        /\ failure = NoFailure
        /\ refinement_result # <<>>
        /\ result[1].answer = refinement_result[1].final_answer
        /\ result[1].metadata.meta_refinement_applied = FALSE

\* Meta-Refine exhausted its attempts after Refine produced a text
C8_Witness ==
    /\ "meta_refinement" \in raised
    /\ "meta_refinement" \in called
    /\ result # <<>>
    /\ result[1].answer = "refined"

\* C9: when Research raises, nothing is raised by the run: it goes on to the
\* Think stage without research results, and the run's later outcome never
\* names Research; a run that returns after it has run Think, Critique,
\* Refine and Meta-Refine.
C9_ResearchFailureNonFatal ==
    /\ []("research" \in raised =>
            /\ research_results = <<>>
            /\ failure.stage # "research"
            /\ (result # <<>> =>
                  /\ {"thinking"} \cup LaterStages \subseteq StartedSet
                  /\ result[1].metadata.research_conducted = FALSE))
    /\ [][("research" \notin raised /\ "research" \in raised') =>
            (pc' = "thinking" /\ failure' = NoFailure)]_vars

\* Research raised and the run still returned a result
C9_Witness ==
    /\ "research" \in raised
    /\ result # <<>>
    /\ {"thinking"} \cup LaterStages \subseteq called

C10_StageTimeoutReached ==
    /\ failure.cause = "asyncio.TimeoutError"
    /\ failure.stage \in {"planning", "critique", "refinement"}


Running(t) == t.st \in {"inflight", "backoff"}

\* C11: once the pipeline deadline is breached no Think call is left in
\* flight or waiting to retry: the calls that were running are cancelled,
\* and from then on no thinker changes state, no provider call is made, no
\* candidate is collected and no stage is entered; a breach during the Think
\* stage leaves no candidate and no Critique, Refine or Meta-Refine call.
C11_DeadlineCancelsThinkers ==
    /\ [](failure.cause = "deadline" =>
            /\ \A i \in Seeds : ~Running(think[i])
            /\ call.st \notin {"inflight", "backoff"}
            /\ result = <<>>)
    /\ []((failure.cause = "deadline" /\ \E i \in Seeds : think[i].st = "cancelled") =>
            /\ valid_candidates = <<>>
            /\ critic_input = <<>>
            /\ StartedSet \cap LaterStages = {}
            /\ called \cap LaterStages = {})
    /\ [][(\E i \in Seeds : Running(think[i])) /\ failure'.cause = "deadline" =>
            \A i \in Seeds : Running(think[i]) => think'[i].st = "cancelled"]_vars
    /\ [][failure.cause = "deadline" =>
            UNCHANGED <<think, arrival, valid_candidates, critic_input, started,
                        called, result, failure>>]_vars

\* the deadline expired with one thinker retrying, one waiting in backoff
\* and one already finished
C11_Witness ==
    /\ failure.cause = "deadline"
    /\ \E i, j, k \in Used :
         /\ think[i] = [st |-> "cancelled", attempt |-> 2, exc |-> "none"]
         /\ think[j].st = "cancelled" /\ think[j].attempt = 1
         /\ think[k].st = "ok"
         /\ i # j

Populated(opt) == opt # <<>>

\* the result carries an answer and every field of PipelineMetadata
Complete(res) ==
    /\ res.answer \in {"", "refined", "elevated", "list"}
    /\ res.metadata.n_paths = n_paths
    /\ res.metadata.candidates_generated \in 1 .. n_paths
    /\ res.metadata.candidates_failed \in 0 .. n_paths
    /\ res.metadata.top_k_used \in 1 .. MaxTopK
    /\ Populated(res.metadata.synthesis_approach)
    /\ Populated(res.metadata.confidence_level)
    /\ Populated(res.metadata.execution_time_seconds)
    /\ Len(res.metadata.pipeline_stages) >= 5

\* an ended run has exactly one outcome, and it never changes afterwards
OneOutcome ==
    /\ pc = "done" <=> (result # <<>> \/ failure # NoFailure)
    /\ ~(result # <<>> /\ failure # NoFailure)
    /\ failure # NoFailure => failure.type # "none"

\* C12: a run that has ended has either returned a result or raised a
\* failure, never both and never neither, and every returned result is
\* complete: an answer plus every metadata field populated.
C12_ResultOrFailure ==
    /\ OneOutcome
    /\ result # <<>> => Complete(result[1])


\* ------------------------------------------------ the invoker on its own

Last(seq) == seq[Len(seq)]
AllFailed(outs) == \A k \in 1 .. Len(outs) : outs[k] # "ok"
Ended == inv.st \in {"returned", "raised"}

\* C13: one invoke makes at most 3 attempts; a failed attempt of any kind is
\* followed by a backoff and a new attempt while fewer than 3 were made; the
\* first successful attempt ends the invoke and nothing follows it; the
\* third failed attempt makes the invoke raise; and every invoke ends.
C13_AtMostThreeAttempts ==
    /\ [](/\ inv.attempt <= 3
          /\ Len(inv.sent) = inv.attempt
          /\ Len(inv.outcomes) = IF inv.st = "inflight" THEN inv.attempt - 1
                                 ELSE inv.attempt)
    /\ [](inv.st = "returned" =>
            /\ Last(inv.outcomes) = "ok"
            /\ AllFailed(SubSeq(inv.outcomes, 1, inv.attempt - 1)))
    /\ [](inv.st = "raised" => inv.attempt = 3 /\ AllFailed(inv.outcomes))
    /\ [](inv.st = "backoff" => inv.attempt < 3 /\ AllFailed(inv.outcomes))
    /\ [][(inv.st = "inflight" /\ Len(inv'.outcomes) > Len(inv.outcomes)) =>
            IF Last(inv'.outcomes) = "ok" THEN inv'.st = "returned"
            ELSE IF inv.attempt < 3 THEN inv'.st = "backoff"
            ELSE inv'.st = "raised"]_vars
    /\ [][(inv.st = "backoff" /\ inv'.st # "backoff") =>
            (inv'.st = "inflight" /\ inv'.attempt = inv.attempt + 1)]_vars
    /\ [][Ended => inv' = inv]_vars
    /\ (inv.st = "backoff" ~> inv.st = "inflight")
    /\ <>Ended

\* three attempts failed, one for each reason, and the invoke raised
C13_Witness ==
    /\ inv.st = "raised"
    /\ inv.outcomes = <<"ProviderError", "asyncio.TimeoutError", "ValueError">>
    /\ inv.exc = "RetryError"

\* C14: every value the invoker returns is non-empty text, and it returns a
\* value only when an attempt produced usable text.
C14_ReturnsNonEmpty ==
    /\ inv.st = "returned" => (inv.value # <<>> /\ inv.value[1] # <<>>)
    /\ inv.st # "returned" => inv.value = <<>>

\* C15: no attempt is in flight past the per-call timeout; an attempt still
\* in flight when the timeout elapses ends right then as a timeout failure,
\* which is retried like any other failure (backoff, or raise after the
\* third attempt); and every attempt in flight comes to an end.
C15_AttemptTimeout ==
    /\ [](inv.st = "inflight" => inv.elapsed <= inv.timeout)
    /\ [][(inv.st = "inflight" /\ inv.elapsed >= inv.timeout) =>
            /\ inv'.outcomes = Append(inv.outcomes, "asyncio.TimeoutError")
            /\ inv'.st = IF inv.attempt < 3 THEN "backoff" ELSE "raised"]_vars
    /\ [][(inv.st = "inflight" /\ inv'.st = "inflight") =>
            (inv.elapsed < inv.timeout /\ inv'.elapsed = inv.elapsed + 1)]_vars
    /\ \A n \in 1 .. 3 :
         (inv.st = "inflight" /\ inv.attempt = n) ~>
             (inv.st # "inflight" \/ inv.attempt # n)

\* the first attempt hung until the timeout and the retry returned text
C15_Witness ==
    /\ inv.st = "returned"
    /\ inv.outcomes = <<"asyncio.TimeoutError", "ok">>
    /\ inv.timeout = MaxTimeout

\* C16: the invoker sleeps once between consecutive attempts: 1 second after
\* the first failed attempt, twice the previous sleep after each further
\* one, and never more than 60 seconds.
C16_ExponentialBackoff ==
    /\ [](Len(inv.waits) = IF inv.attempt = 0 THEN 0 ELSE inv.attempt - 1)
    /\ [](Len(inv.waits) >= 1 => inv.waits[1] = 1)
    /\ [](\A k \in 2 .. Len(inv.waits) :
            inv.waits[k] = Min2(2 * inv.waits[k - 1], 60))
    /\ [](\A k \in 1 .. Len(inv.waits) : inv.waits[k] <= 60)
    /\ [][(inv.st = "backoff" /\ inv'.st = "backoff") =>
            inv'.elapsed = inv.elapsed + 1]_vars

\* the invoke raised after sleeping 1 and then 2 seconds
C16_Witness ==
    /\ inv.st = "raised"
    /\ inv.waits = <<1, 2>>

\* C17: on every attempt the provider is sent 8192 when more than 8192
\* output tokens were requested, and the requested value otherwise.
C17_ClampMaxTokens ==
    /\ Len(inv.sent) = inv.attempt
    /\ \A k \in 1 .. Len(inv.sent) :
         inv.sent[k] = IF inv.requested > 8192 THEN 8192 ELSE inv.requested

\* 16384 tokens were requested and all three attempts were sent 8192
C17_Witness ==
    /\ inv.requested = 16384
    /\ inv.sent = <<8192, 8192, 8192>>


\* ---------------------------------------------- the normalizer on its own

Normalized == norm.pc = "done"

\* C18: for a text that json.loads parses, normalize returns exactly the
\* parsed value whatever the fallback is (supplied or not), without
\* consulting any recovery strategy.
C18_DirectParseRoundTrip ==
    (Normalized /\ JsonLoads(norm.text) # <<>>) =>
        /\ norm.out = JsonLoads(norm.text)
        /\ norm.via = "direct"
        /\ norm.consulted = <<>>
        /\ norm.recovered = <<>>

\* the text parsed to the empty object, a fallback was supplied, and the
\* empty object is what normalize returned
C18_Witness ==
    /\ Normalized
    /\ norm.fallback # <<>>
    /\ JsonLoads(norm.text) = <<ObjValue(<<>>)>>
    /\ norm.out = <<ObjValue(<<>>)>>

AllStrategiesFail(t) ==
    /\ JsonLoads(t) = <<>>
    /\ BraceBalance(Strip(t)) = <<>>
    /\ StringClosing(Strip(t)) = <<>>
    /\ EmbeddedBlock(Strip(t)) = <<>>

\* C19: for a text on which the direct parse and the three recovery
\* strategies all fail, normalize returns exactly the fallback record its
\* caller supplied; and every call runs through to a returned record (no
\* step of it raises).
C19_FallbackWhenAllFail ==
    /\ [](Normalized /\ AllStrategiesFail(norm.text) /\ norm.fallback # <<>> =>
            (norm.out = norm.fallback /\ norm.via = "fallback"))
    /\ [](Normalized <=> norm.out # <<>>)
    /\ [][norm.pc # "done" =>
            norm'.pc \in {"brace_balance", "string_closing", "embedded_block",
                          "recovered", "done"}]_vars

\* a text with an unbalanced brace and a quote defeated every strategy and
\* the supplied fallback came back
C19_Witness ==
    /\ Normalized
    /\ AllStrategiesFail(norm.text)
    /\ Count(norm.text, "{") > 0 /\ Count(norm.text, Quote) > 0
    /\ norm.consulted = <<"brace_balance", "string_closing", "embedded_block">>
    /\ norm.fallback # <<>>
    /\ norm.out = norm.fallback


\* --------------------------------------------------- the critic on its own

EvaluatedIds == {crit.evaluations[k].agent_id : k \in DOMAIN crit.evaluations}
CandidateIds == {crit.candidates[k] : k \in DOMAIN crit.candidates}

Critiqued == crit.pc \in {"returned", "selected"}
ScoreOf(id) ==
    LET k == CHOOSE i \in DOMAIN crit.evaluations : crit.evaluations[i].agent_id = id
    IN  crit.evaluations[k].weighted_total_score
PlaceOf(id) ==
    CHOOSE i \in DOMAIN crit.evaluations : crit.evaluations[i].agent_id = id

\* C21: an evaluation synthesized by default has a weighted_total_score
\* equal to the sum over the weight table of 5.0 times the weight (in
\* tenths: 5 * (2 + 4 + 3 + 1 + 2) = 60), the value the weighted-total
\* formula gives five rubric scores of 5.0.
C21_DefaultTotalIsWeightedSum ==
    Critiqued =>
        \A k \in DOMAIN crit.evaluations :
            crit.evaluations[k].default =>
                /\ \A r \in Rubrics : crit.evaluations[k].rubric_scores[r] = 5
                /\ crit.evaluations[k].weighted_total_score =
                       SumOver([r \in Rubrics |-> 5 * RubricWeight[r]], Rubrics)
                /\ crit.evaluations[k].weighted_total_score = 60

\* C22: the ranking is a permutation of the evaluations in non-increasing
\* order of weighted_total_score, ranks run 1..N, and evaluations of equal
\* score keep the order they have in the evaluation list.
C22_RankingStableSort ==
    Critiqued =>
        /\ Len(crit.ranking) = Len(crit.evaluations)
        /\ {crit.ranking[p].agent_id : p \in DOMAIN crit.ranking} = EvaluatedIds
        /\ \A p \in DOMAIN crit.ranking :
             /\ crit.ranking[p].rank = p
             /\ crit.ranking[p].weighted_total_score = ScoreOf(crit.ranking[p].agent_id)
        /\ \A p, q \in DOMAIN crit.ranking :
             p < q =>
               /\ crit.ranking[p].weighted_total_score >= crit.ranking[q].weighted_total_score
               /\ (crit.ranking[p].weighted_total_score = crit.ranking[q].weighted_total_score
                     => PlaceOf(crit.ranking[p].agent_id) < PlaceOf(crit.ranking[q].agent_id))

\* three evaluations, the first and the third tied below the second: the
\* ranking is second, first, third
C22_Witness ==
    /\ Critiqued
    /\ Len(crit.evaluations) = 3
    /\ crit.evaluations[1].weighted_total_score = crit.evaluations[3].weighted_total_score
    /\ crit.evaluations[2].weighted_total_score > crit.evaluations[1].weighted_total_score
    /\ crit.ranking[1].agent_id = crit.evaluations[2].agent_id
    /\ crit.ranking[2].agent_id = crit.evaluations[1].agent_id
    /\ crit.ranking[3].agent_id = crit.evaluations[3].agent_id

SelectedIds == {crit.top_candidates[p].agent_id : p \in DOMAIN crit.top_candidates}

\* C23: Refine selects exactly min(top_k, number of candidates) candidates:
\* the first entries of the Critique ranking, in rank order, so that no
\* candidate left out scores higher than one selected.
C23_TopKSelection ==
    crit.pc = "selected" =>
        /\ Len(crit.top_candidates) =
               IF crit.top_k < Len(crit.candidates) THEN crit.top_k
               ELSE Len(crit.candidates)
        /\ \A p \in DOMAIN crit.top_candidates :
             /\ crit.top_candidates[p].agent_id = crit.ranking[p].agent_id
             /\ crit.top_candidates[p].rank = p
        /\ \A a \in SelectedIds, b \in CandidateIds \ SelectedIds :
             ScoreOf(a) >= ScoreOf(b)

\* top_k exceeded the three candidates: all three were selected, the
\* best-scored first although it was submitted last
C23_Witness ==
    /\ crit.pc = "selected"
    /\ Len(crit.candidates) = 3
    /\ crit.top_k > 3
    /\ Len(crit.top_candidates) = 3
    /\ crit.top_candidates[1].agent_id = crit.candidates[3]
    /\ ScoreOf(crit.candidates[3]) > ScoreOf(crit.candidates[1])

\* C26: once the invoker has returned text, the stage completes with a
\* record, whatever the model's output: no shape problem makes it raise.
C26_StageCompletesWithRecord ==
    crit.pc # "raised"

\* C24: the top_k recorded in the returned metadata is the number of
\* candidates Refine actually selected for synthesis (the requested top_k
\* clamped to the number of valid candidates).
C24_TopKUsedIsSelected ==
    result # <<>> =>
        /\ refinement_result # <<>>
        /\ result[1].metadata.top_k_used =
               refinement_result[1].candidates_synthesized
        /\ result[1].metadata.top_k_used <=
               result[1].metadata.candidates_generated

\* C25: the stage list of the returned metadata names exactly the stages
\* whose execute was called in this run, in the order they were called.
C25_StagesListIsExecuted ==
    result # <<>> =>
        result[1].metadata.pipeline_stages = started

Constructed == req.pc = "done" /\ req.outcome = "constructed"

Rejected ==
    /\ pc = "done"
    /\ result = <<>>
    /\ failure = [type |-> "ValueError", stage |-> "planning", cause |-> "validation"]

BlankQuery == req.query # <<>> /\ Strip(req.query[1]) = <<>>

\* C27 (as stated): a run whose query is empty makes no external call and,
\* when it has ended, has been rejected with a validation failure; a request
\* whose query is empty or whitespace-only is rejected and no run is made
\* for it.
C27_EmptyQueryRejected ==
    /\ query = "" =>
         /\ called = {}
         /\ pc = "done" => Rejected
    /\ (req.pc = "done" /\ BlankQuery) =>
         /\ req.outcome = "ValidationError"
         /\ started = <<>> /\ called = {}

\* C27 (amended): a run whose query is empty makes no external call and
\* returns no result; as soon as the planner is entered the run is rejected
\* with the planner's ValueError, and the only other way it ends is the
\* pipeline deadline expiring before the planner has run.  A request whose
\* query is absent, empty or whitespace-only is rejected with
\* ValidationError and no run is made for it; a query that is accepted is
\* stored stripped and is not empty.
C27_EmptyQueryRejectedOrTimedOut ==
    /\ query = "" =>
         /\ called = {} /\ call = IdleCall /\ result = <<>>
         /\ \A i \in Seeds : think[i] = UnusedThinker
         /\ started # <<>> => Rejected /\ started = <<"planning">>
         /\ (pc = "done" /\ started = <<>>) =>
                failure = [type |-> PipelineTimeout, stage |-> "pipeline",
                           cause |-> "deadline"]
    /\ (req.pc = "done" /\ (BlankQuery \/ req.query = <<>>)) =>
         /\ req.outcome = "ValidationError"
         /\ "query" \in req.errors
         /\ started = <<>> /\ called = {} /\ pc = "planning"
    /\ Constructed =>
         /\ req.data.query[1] = Strip(req.query[1])
         /\ req.data.query[1] # <<>>

\* run was called directly with an empty query and the planner rejected it
C27_Witness ==
    /\ req.pc = "direct"
    /\ query = ""
    /\ Rejected
    /\ called = {}

\* C28: every request that validates has top_k <= n_paths: a requested
\* top_k greater than n_paths is adjusted down to n_paths, and a top_k not
\* greater than n_paths is kept unchanged.
C28_TopKAtMostNPaths ==
    Constructed =>
        /\ req.data.top_k[1] <= req.data.n_paths[1]
        /\ (req.top_k # <<>> /\ req.n_paths # <<>>) =>
               req.data.top_k[1] =
                   IF req.top_k[1] > req.n_paths[1] THEN req.n_paths[1]
                   ELSE req.top_k[1]


\* C29: every run eventually ends, whatever the provider does on each call
\* (a call may be left unanswered for ever): from some point on the run has
\* returned a result or raised a failure, and a run that was ended by the
\* deadline has no call left in flight.
C29_RunEventuallyEnds ==
    /\ <>[](pc = "done" /\ (result # <<>> \/ failure # NoFailure))
    /\ [](failure.cause = "deadline" =>
            /\ call.st \notin {"inflight", "backoff"}
            /\ \A i \in Seeds : ~Running(think[i]))

\* the provider left the Critique call unanswered and the deadline ended it
C29_Witness ==
    /\ pc = "done"
    /\ failure.cause = "deadline"
    /\ call = [st |-> "cancelled", attempt |-> 1]
    /\ Last(started) = "critique"

FirstRecovered(t) ==
    IF BraceBalance(Strip(t)) # <<>> THEN BraceBalance(Strip(t))
    ELSE IF StringClosing(Strip(t)) # <<>> THEN StringClosing(Strip(t))
    ELSE EmbeddedBlock(Strip(t))

\* C34: when the direct parse fails, the strategies are consulted in the
\* order brace balance, string closing, embedded block, each only if every
\* earlier one failed to parse; the value returned is the value parsed by
\* the first strategy that parses, and the fallback only if none parses.
C34_FirstStrategyThatParses ==
    (Normalized /\ JsonLoads(norm.text) = <<>>) =>
        /\ norm.consulted =
               IF BraceBalance(Strip(norm.text)) # <<>>
               THEN <<"brace_balance">>
               ELSE IF StringClosing(Strip(norm.text)) # <<>>
               THEN <<"brace_balance", "string_closing">>
               ELSE <<"brace_balance", "string_closing", "embedded_block">>
        /\ FirstRecovered(norm.text) # <<>> =>
               (norm.out = FirstRecovered(norm.text) /\ norm.via = "recovery")
        /\ norm.via = "fallback" => FirstRecovered(norm.text) = <<>>

Supplied == crit.output.kind = "evaluations" /\ Len(crit.output.evaluations) = 1
Given(r) == crit.output.evaluations[1].rubric_scores[r]
Kept(r) == crit.evaluations[1].rubric_scores[r]

C39_CandidateCountsAddUp ==
    result # <<>> =>
        /\ result[1].metadata.candidates_generated
             + result[1].metadata.candidates_failed = n_paths
        /\ result[1].metadata.n_paths = n_paths
        /\ result[1].metadata.candidates_generated >= 1
        /\ result[1].metadata.candidates_generated = Len(critic_input)
        /\ result[1].metadata.candidates_generated = NumOk
        /\ result[1].metadata.candidates_failed = NumFailed

\* a run of three paths, one failed, returned after Critique was handed the
\* two candidates
C39_Witness ==
    /\ result # <<>>
    /\ n_paths = 3
    /\ Len(critic_input) = 2
    /\ result[1].metadata.candidates_generated = 2
    /\ result[1].metadata.candidates_failed = 1

\* the answers of the model that are texts
TextAnswers == RefineAnswers \cup {"elevated", "Unable to generate answer"}

\* C38: every result returned by run carries an answer that is a text,
\* whatever the model gave in the Refine and Meta-Refine stages, a
\* meta_refined_answer that is missing, null or not a text included.
C38_AnswerIsText ==
    result # <<>> => result[1].answer \in TextAnswers

\* C36: Refine's final_answer is always a text: a text from the model is
\* kept as it is, any other value is serialized to text, and an absent one
\* is replaced by the synthesis, which is the top selected candidate's
\* answer, annotated with the number of paths when more than one candidate
\* was selected.
C36_FinalAnswerIsText ==
    ref.pc \in {"validated", "raised"} =>
        /\ ref.pc = "validated"
        /\ ref.final_answer.type = "str"
        /\ (ref.parsed /\ ref.raw # <<>> /\ ref.raw[1].type = "str")
              => ref.final_answer = ref.raw[1]
        /\ (ref.parsed /\ ref.raw = <<PyList("a")>>)
              => ref.final_answer.v = "[\n  \"a\"\n]"
        /\ (ref.parsed /\ ref.raw = <<PyInt("42")>>)
              => ref.final_answer.v = "42"
        /\ (ref.parsed /\ ref.raw = <<>> /\ Len(ref.top_candidates) = 1)
              => ref.final_answer = ref.top_candidates[1]

\* the value the model gave for thinking_budget, and the normalised one
GivenBudget == bud.budget[1]
ThinkingBudget == bud.thinking_budget[1]

\* C37: for every value the model gives for thinking_budget the plan's
\* thinking_budget is an integer in 5..15: an integer is clamped to
\* [5,15], a text holding a number gives its first integer clamped to
\* [5,15], and anything else (absent, a text without digits, another
\* type) gives 10.
C37_BudgetNormalized ==
    bud.pc = "validated" =>
        /\ ThinkingBudget \in BudgetMin .. BudgetMax
        /\ IF bud.budget # <<>> /\ GivenBudget.type = "int"
           THEN ThinkingBudget = ClampBudget(GivenBudget.n)
           ELSE IF bud.budget # <<>> /\ GivenBudget.type = "str"
                   /\ HasDigits(GivenBudget.s)
                THEN ThinkingBudget = ClampBudget(FirstNumber(GivenBudget.s))
                ELSE ThinkingBudget = BudgetDefault

\* the positions of the steps execute has to search, in plan order
SearchedSteps ==
    {j \in 1 .. Len(tool.research_steps) : Searched(tool.research_steps[j])}

\* C33: when the search provider fails for one research step, that step's
\* results are empty, every other research step is still executed and
\* reported, and the Research stage itself does not fail.
C33_FailedStepIsEmpty ==
    /\ tool.pc = "raised" => tool.step_results = <<>>
    /\ tool.pc = "returned" =>
          /\ \A k \in 1 .. Len(tool.step_results) :
                tool.step_results[k].provider_failed
                   => tool.step_results[k].results.count = 0
          /\ {tool.step_results[k].step_id : k \in 1 .. Len(tool.step_results)}
                = SearchedSteps
          /\ Len(tool.step_results) = Cardinality(SearchedSteps)

\* the external calls (provider or search) that are out and unanswered
InFlightCalls ==
    (IF call.st = "inflight" THEN 1 ELSE 0)
    + (IF pc = "research" /\ research_step >= 1 THEN 1 ELSE 0)
    + Cardinality({i \in Seeds : think[i].st = "inflight"})

NoneStarted == \A i \in Seeds : think[i].st = "unused"

\* C31: the Think fan-out is the only point of concurrency of a run:
\* outside the Think stage at most one external call is in flight, the
\* research steps are searched one after another in plan order, and all
\* n_paths Think calls are started before any of them is awaited.
C31_OnlyFanOutIsConcurrent ==
    /\ [](pc # "thinking" => InFlightCalls <= 1)
    /\ [](pc = "thinking" => call.st = "idle")
    /\ [][research_step' # research_step =>
             /\ research_step' = research_step + 1
             /\ research_step' <= plan_result[1].research_steps]_vars
    /\ [][(NoneStarted /\ ~NoneStarted') =>
             \A i \in Used : think'[i].st = "inflight"]_vars
    /\ [](arrival # <<>> => \A i \in Used : think[i].st # "unused")

\* three Think calls are in flight together and none has been awaited
C31_Witness ==
    /\ pc = "thinking"
    /\ n_paths = 3
    /\ InFlightCalls = 3
    /\ arrival = <<>>

\* C32: records are never updated after creation: the plan, the candidates
\* and the critique stay as their stages produced them while later stages
\* read them, and the result's intermediate records are those records.
C32_RecordsNeverUpdated ==
    /\ [][plan_result # <<>> => plan_result' = plan_result]_vars
    /\ [][pc # "thinking" => valid_candidates' = valid_candidates]_vars
    /\ [][critique_result # <<>> => critique_result' = critique_result]_vars
    /\ [](critic_input # <<>> => critic_input = valid_candidates)
    /\ [](refiner_input # <<>> => refiner_input = valid_candidates)
    /\ [](result # <<>> =>
            /\ result[1].plan = plan_result
            /\ result[1].critique = critique_result
            /\ result[1].candidates = valid_candidates
            /\ result[1].candidates =
                  FilterValid(GatherResults(think, n_paths, arrival), 1)
            /\ \A k \in 1 .. Len(result[1].candidates) :
                  result[1].candidates[k] = Candidate(result[1].candidates[k].agent_id))

\* a run returned after the refiner selected among two candidates
C32_Witness ==
    /\ result # <<>>
    /\ Len(result[1].candidates) = 2
    /\ result[1].critique # <<>>
    /\ refinement_result # <<>>
    /\ refinement_result[1].candidates_synthesized >= 1

====
